---- MODULE Spec2Model ----
(***************************************************************************)
(* A model of the B3 quote-history toolkit: the query engine               *)
(* (b3_analyzer/analyzer.py), the text-to-Parquet build                    *)
(* (b3_analyzer/raw_data_processor.py) and the security-master builder     *)
(* (b3_analyzer/dictionary_builder.py).                                    *)
(*                                                                         *)
(* Python strings are modelled as sequences of one-character strings, so   *)
(* that upper(), startswith(), str.contains() and the regular expressions  *)
(* of the code are computed character by character.  A missing value       *)
(* (NaN / None / <NA>) of a text column is the one-element sequence NA,    *)
(* whose element is not a character.  Dates of the store are integers       *)
(* YYYYMMDD and the missing date NaT is 0.                                 *)
(***************************************************************************)
EXTENDS Integers, Sequences, FiniteSets, TLC

VARIABLES
    df_dicionario,   \* B3Data.df_dicionario: the loaded Security Master
    pc,              \* "idle" | "done": position of the caller of the engine
    call,            \* the last call of the engine and everything it did
    build            \* state of the processing pipeline and of the store file

vars == <<df_dicionario, pc, call, build>>

(***************************************************************************)
(* Characters and strings                                                  *)
(***************************************************************************)
UpperCase == <<"A","B","C","D","E","F","G","H","I","J","K","L","M",
               "N","O","P","Q","R","S","T","U","V","W","X","Y","Z">>
LowerCase == <<"a","b","c","d","e","f","g","h","i","j","k","l","m",
               "n","o","p","q","r","s","t","u","v","w","x","y","z">>
Digits == <<"0","1","2","3","4","5","6","7","8","9">>

\* The characters of the model in ASCII order (the order Python compares by).
Ascii == <<" ", "(", "+", "-", ".", "/">> \o Digits \o <<":">> \o UpperCase \o <<"_">>
         \o LowerCase \o <<"|">>

Range(s) == { s[i] : i \in 1..Len(s) }

Ord(c) == CHOOSE i \in 1..Len(Ascii) : Ascii[i] = c

IsUpperChar(c) == c \in Range(UpperCase)
IsLowerChar(c) == c \in Range(LowerCase)
IsDigitChar(c) == c \in Range(Digits)
\* \w of Python's re
IsWordChar(c) == IsUpperChar(c) \/ IsLowerChar(c) \/ IsDigitChar(c) \/ c = "_"

UpperChar(c) ==
    IF IsLowerChar(c)
    THEN UpperCase[CHOOSE i \in 1..Len(LowerCase) : LowerCase[i] = c]
    ELSE c
LowerChar(c) ==
    IF IsUpperChar(c)
    THEN LowerCase[CHOOSE i \in 1..Len(UpperCase) : UpperCase[i] = c]
    ELSE c

\* str.upper(), str.lower()
Upper(s) == [i \in 1..Len(s) |-> UpperChar(s[i])]
Lower(s) == [i \in 1..Len(s) |-> LowerChar(s[i])]

\* The missing value of a text column.
NA == <<"<NA>">>
IsNA(s) == s = NA

\* s[a:b] of Python, 0-based half-open, given as 1-based inclusive bounds; the
\* bounds are clamped to the string
Slice(s, a, b) ==
    LET lo == IF a < 1 THEN 1 ELSE a
        hi == IF b > Len(s) THEN Len(s) ELSE b
    IN IF lo > hi THEN <<>> ELSE SubSeq(s, lo, hi)

\* str.startswith
StartsWith(s, p) == Len(p) <= Len(s) /\ SubSeq(s, 1, Len(p)) = p
\* str.endswith
EndsWith(s, p) == Len(p) <= Len(s) /\ SubSeq(s, Len(s) - Len(p) + 1, Len(s)) = p

\* p in s (substring; str.contains(p, regex=False))
Contains(s, p) ==
    \E i \in 1..(Len(s) - Len(p) + 1) : SubSeq(s, i, i + Len(p) - 1) = p

\* s < t in Python's string order
RECURSIVE StrLess(_, _)
StrLess(s, t) ==
    IF t = <<>> THEN FALSE
    ELSE IF s = <<>> THEN TRUE
    ELSE IF s[1] # t[1] THEN Ord(s[1]) < Ord(t[1])
    ELSE StrLess(Tail(s), Tail(t))

\* delim.join(parts)
RECURSIVE Join(_, _)
Join(parts, delim) ==
    IF parts = <<>> THEN <<>>
    ELSE IF Len(parts) = 1 THEN parts[1]
    ELSE parts[1] \o delim \o Join(Tail(parts), delim)

\* s.split(delim) for a non-empty delim
RECURSIVE Split(_, _)
Split(s, delim) ==
    IF \E i \in 1..(Len(s) - Len(delim) + 1) : SubSeq(s, i, i + Len(delim) - 1) = delim
    THEN LET i == CHOOSE j \in 1..(Len(s) - Len(delim) + 1) :
                    /\ SubSeq(s, j, j + Len(delim) - 1) = delim
                    /\ \A k \in 1..(j - 1) : SubSeq(s, k, k + Len(delim) - 1) # delim
         IN <<SubSeq(s, 1, i - 1)>> \o Split(SubSeq(s, i + Len(delim), Len(s)), delim)
    ELSE <<s>>

\* sorted(set_of_strings)
RECURSIVE SortedStrings(_)
SortedStrings(S) ==
    IF S = {} THEN <<>>
    ELSE LET m == CHOOSE x \in S : \A y \in S : y = x \/ StrLess(x, y)
         IN <<m>> \o SortedStrings(S \ {m})

(***************************************************************************)
(* Regular expressions (Python's re, as of Python 3.11) over the patterns  *)
(* the code builds.  A pattern is a sequence of tokens: the characters of  *)
(* a string used as a regular expression, and the token "\\b" where the    *)
(* code writes \b.  "|" separates the branches of an alternation, "."      *)
(* matches any character, "+" repeats the character before it (one "+"     *)
(* greedily, "++" possessively), "(" opens a group that nothing of the     *)
(* alphabet closes, and every other character matches itself.              *)
(***************************************************************************)
WB == "\\b"

\* the number of "+" tokens of the branch b from position k on
RECURSIVE PlusRun(_, _)
PlusRun(b, k) == IF k <= Len(b) /\ b[k] = "+" THEN 1 + PlusRun(b, k + 1) ELSE 0

\* the items of the branch b from position k on: a token and the number of
\* "+" that follow it
RECURSIVE ParseBranch(_, _)
ParseBranch(b, k) ==
    IF k > Len(b) THEN <<>>
    ELSE <<[atom |-> b[k], plus |-> PlusRun(b, k + 1)]>>
            \o ParseBranch(b, k + 1 + PlusRun(b, k + 1))

\* an item re.compile refuses: nothing to repeat, multiple repeat, or a
\* group that is not closed
BadItem(item) ==
    \/ item.atom \in {"+", "("}
    \/ item.atom = WB /\ item.plus > 0
    \/ item.plus > 2

\* the branches of a pattern, each the sequence of its items
Branches(p) == { ParseBranch(b, 1) : b \in Range(Split(p, <<"|">>)) }

\* re.compile(p) raises re.error
RegexError(p) == \E items \in Branches(p) : \E k \in 1..Len(items) : BadItem(items[k])

\* one pattern character against one text character
RegexCharMatch(pch, tch, ignorecase) ==
    \/ pch = "."
    \/ pch = tch
    \/ ignorecase /\ UpperChar(pch) = UpperChar(tch)

\* \b before position i (1-based; i = Len+1 is the end of the text)
WordBoundary(text, i) ==
    LET before == i > 1 /\ IsWordChar(text[i - 1])
        after  == i <= Len(text) /\ IsWordChar(text[i])
    IN before # after

\* the number of characters of text from position i on that pch matches
RECURSIVE MatchRun(_, _, _, _)
MatchRun(pch, text, i, ignorecase) ==
    IF i <= Len(text) /\ RegexCharMatch(pch, text[i], ignorecase)
    THEN 1 + MatchRun(pch, text, i + 1, ignorecase)
    ELSE 0

\* the lengths an item can take of a run of n matching characters
ItemLengths(item, n) ==
    IF item.plus = 0 THEN { x \in {1} : n >= 1 }
    ELSE IF item.plus = 1 THEN 1..n
    ELSE { x \in {n} : n >= 1 }

\* the positions after a match of the items from number k on that begins at
\* position i of text
RECURSIVE RegexMatchEnds(_, _, _, _, _)
RegexMatchEnds(items, k, text, i, ignorecase) ==
    IF k > Len(items) THEN {i}
    ELSE IF items[k].atom = WB
    THEN IF WordBoundary(text, i)
         THEN RegexMatchEnds(items, k + 1, text, i, ignorecase) ELSE {}
    ELSE UNION { RegexMatchEnds(items, k + 1, text, i + n, ignorecase) :
                   n \in ItemLengths(items[k],
                                     MatchRun(items[k].atom, text, i, ignorecase)) }

\* one branch of p matches text at position i (1-based)
RegexMatchAt(p, text, i, ignorecase) ==
    \E items \in Branches(p) : RegexMatchEnds(items, 1, text, i, ignorecase) # {}

\* re.search(p, text) finds a match
Search(p, text, ignorecase) ==
    \E i \in 1..(Len(text) + 1) : RegexMatchAt(p, text, i, ignorecase)

\* the pattern f"\\b{p}\\b" of line 95
WordPattern(p) == <<WB>> \o p \o <<WB>>

\* re.search(r"\b" + p + r"\b", text) finds a match
SearchWord(p, text) == Search(WordPattern(p), text, FALSE)

\* re.match("^[A-Z]{4}", s) is not None
MatchRoot(s) == Len(s) >= 4 /\ \A i \in 1..4 : IsUpperChar(s[i])

\* re.match("^[A-Z]{4}[0-9]{1,2}$", s) is not None
MatchValidTicker(s) ==
    /\ Len(s) \in {5, 6}
    /\ \A i \in 1..4 : IsUpperChar(s[i])
    /\ \A i \in 5..Len(s) : IsDigitChar(s[i])

\* re.split(" | ", s): the pattern is an alternation of two single spaces,
\* so the string is cut at every space
RegexSplitSpaceOrSpace(s) == Split(s, <<" ">>)

(***************************************************************************)
(* The columnar store dados_b3.parquet read by the engine: a sequence of   *)
(* Quote Records (the columns the engine and the master builder read).     *)
(***************************************************************************)
Row(date, bdi, neg, tpm, nom, esp, ven, isi) ==
    [DATA_PREGAO |-> date, CODBDI |-> bdi, CODNEG |-> neg, TPMERC |-> tpm,
     NOMRES |-> nom, ESPECI |-> esp, DATVEN |-> ven, CODISI |-> isi]

StoreColumns == {"TIPREG", "DATA_PREGAO", "CODBDI", "CODNEG", "TPMERC", "NOMRES",
                 "ESPECI", "PRAZOT", "MODREF", "PREABE", "PREMAX", "PREMIN",
                 "PREMED", "PREULT", "PREOFC", "PREOFV", "TOTNEG", "QUATOT",
                 "VOLTOT", "PREEXE", "INDOPC", "DATVEN", "FATCOT", "PTOEXE",
                 "CODISI", "DISMES"}

s_VALE3 == <<"V","A","L","E","3">>
s_VALEA1 == <<"V","A","L","E","A","1">>
s_PETR3 == <<"P","E","T","R","3">>
s_PETR4 == <<"P","E","T","R","4">>
s_B3SA3 == <<"B","3","S","A","3">>
s_HGLG11 == <<"H","G","L","G","1","1">>
s_AMDB34 == <<"A","M","D","B","3","4">>
s_VALE == <<"V","A","L","E">>
s_PETR == <<"P","E","T","R">>
s_PETRO == <<"P","E","T","R","O">>
s_B3 == <<"B","3">>
s_FII == <<"F","I","I">>
s_AMD == <<"A","M","D">>
s_ON == <<"O","N">>
s_PN == <<"P","N">>
s_CI == <<"C","I">>
s_DRN == <<"D","R","N">>
s_BRVALE == <<"B","R","V","A","L","E">>
s_BRVALO == <<"B","R","V","A","L","O">>
s_BRPETR == <<"B","R","P","E","T","R">>
s_BRB3SA == <<"B","R","B","3","S","A">>
s_BRHGLG == <<"B","R","H","G","L","G">>
s_USAMDB == <<"U","S","A","M","D","B">>

QuoteStore ==
    << Row(20230102, 2,  s_VALE3,  10, s_VALE,  s_ON,  0,        s_BRVALE),
       Row(20230103, 2,  s_VALE3,  10, s_VALE,  s_ON,  0,        s_BRVALE),
       Row(20230103, 78, s_VALEA1, 70, s_VALE,  s_ON,  20230120, s_BRVALO),
       Row(20230102, 2,  s_PETR3,  10, s_PETRO, s_ON,  0,        s_BRPETR),
       Row(20230103, 2,  s_PETR4,  10, s_PETRO, s_PN,  0,        s_BRPETR),
       Row(20230103, 96, s_PETR4,  20, s_PETRO, s_PN,  0,        s_BRPETR),
       Row(20230102, 2,  s_B3SA3,  10, s_B3,    s_ON,  0,        s_BRB3SA),
       Row(20230103, 12, s_HGLG11, 10, s_FII,   s_CI,  0,        s_BRHGLG),
       Row(20230104, 2,  s_AMDB34, 10, s_AMD,   s_DRN, 0,        s_USAMDB),
       Row(20230104, 99, s_VALE,   10, NA,      NA,    0,        NA) >>

(***************************************************************************)
(* dictionary_builder.create_security_master                               *)
(***************************************************************************)
\* (a builder that keeps the rows without identifier)
DropNaCodisiKeeps(rows) == rows

\* line 70: df_full.dropna(subset=['CODISI'])
DropNaCodisi(rows) == SelectSeq(rows, LAMBDA r : ~IsNA(r.CODISI))

\* the rows of one identifier
RowsOf(rows, isin) == { rows[i] : i \in { j \in 1..Len(rows) : rows[j].CODISI = isin } }

\* (a builder that takes any row of the identifier as the latest)
LatestRowsAnyDate(rows, isin) == RowsOf(rows, isin)

\* lines 73-75: sort_values('DATA_PREGAO', ascending=False) puts NaT (0) last
\* and drop_duplicates(subset=['CODISI'], keep='first') keeps the first row of
\* each identifier.  The sort is not stable, so the row kept is any one of the
\* rows of the identifier that have its greatest date.
LatestRows(rows, isin) ==
    { r \in RowsOf(rows, isin) :
        \A q \in RowsOf(rows, isin) : q.DATA_PREGAO <= r.DATA_PREGAO }

\* lines 83, 91: ' | '.join(sorted([str(item) for item in x.unique() if pd.notna(item)]))
Trail(values) == Join(SortedStrings({ v \in values : ~IsNA(v) }), <<" ", "|", " ">>)

\* lines 76-98: the entry of an identifier whose latest row is last
MasterEntry(rows, isin, last) ==
    [CODISI |-> isin,
     ULTIMO_TICKER |-> last.CODNEG,
     ULTIMO_NOME |-> last.NOMRES,
     ULTIMA_ESPECIFICACAO |-> last.ESPECI,
     TICKERS_HISTORICOS |-> Trail({ r.CODNEG : r \in RowsOf(rows, isin) }),
     NOMES_HISTORICOS |-> Trail({ r.NOMRES : r \in RowsOf(rows, isin) })]

\* line 101: sort_values('ULTIMO_TICKER'): ascending, missing tickers last; the
\* sort is not stable, so entries of equal ticker come in any order
RECURSIVE SortByUltimoTicker(_)
SortByUltimoTicker(S) ==
    IF S = {} THEN {<<>>}
    ELSE LET firsts == { x \in S : \A y \in S :
                            \/ IsNA(y.ULTIMO_TICKER)
                            \/ (~IsNA(x.ULTIMO_TICKER)
                                /\ ~StrLess(y.ULTIMO_TICKER, x.ULTIMO_TICKER)) }
         IN UNION { { <<m>> \o t : t \in SortByUltimoTicker(S \ {m}) } : m \in firsts }

\* lines 70-101: the Security Masters the builder can make of a store
create_security_master(store) ==
    LET df_ativos == DropNaCodisi(store)
        isins == { df_ativos[i].CODISI : i \in 1..Len(df_ativos) }
        picks == { f \in [isins -> Range(df_ativos)] :
                     \A isin \in isins : f[isin] \in LatestRows(df_ativos, isin) }
    IN UNION { SortByUltimoTicker({ MasterEntry(df_ativos, isin, f[isin]) : isin \in isins }) :
                 f \in picks }

(***************************************************************************)
(* B3Data.find_assets                                                      *)
(***************************************************************************)
\* The exception find_assets raises for a query, "" when it raises none: the
\* query is put into the regular expression unescaped.
find_assets_exc(query) ==
    IF RegexError(WordPattern(Upper(query))) THEN "re.error" ELSE ""

mask_ticker(entry, query_upper) ==
    ~IsNA(entry.TICKERS_HISTORICOS) /\ SearchWord(query_upper, entry.TICKERS_HISTORICOS)
mask_name(entry, query_upper) ==
    ~IsNA(entry.NOMES_HISTORICOS) /\ Contains(entry.NOMES_HISTORICOS, query_upper)
mask_isin(entry, query_upper) == entry.CODISI = query_upper

\* The rows find_assets returns (in the order of the dictionary).
find_assets(dic, query) ==
    LET query_upper == Upper(query)
    IN SelectSeq(dic, LAMBDA e : \/ mask_ticker(e, query_upper)
                                 \/ mask_name(e, query_upper)
                                 \/ mask_isin(e, query_upper))

(***************************************************************************)
(* Python values of the keyword arguments of get_quotes                    *)
(***************************************************************************)
PyNone == [t |-> "none"]
PyStr(s) == [t |-> "str", s |-> s]
PyList(l) == [t |-> "list", l |-> l]
PyInt(n) == [t |-> "int", n |-> n]

\* bool(v)
Truthy(v) ==
    CASE v.t = "none" -> FALSE
      [] v.t = "str"  -> v.s # <<>>
      [] v.t = "list" -> v.l # <<>>
      [] v.t = "int"  -> v.n # 0

\* params.get(k)
Get(params, k) == IF k \in DOMAIN params THEN params[k] ELSE PyNone

\* params[k] = v
Put(params, k, v) ==
    [x \in DOMAIN params \cup {k} |-> IF x = k THEN v ELSE params[x]]

\* del params[k]
Del(params, k) == [x \in DOMAIN params \ {k} |-> params[x]]

\* the concatenation of a sequence of sequences
RECURSIVE Flatten(_)
Flatten(ss) == IF ss = <<>> THEN <<>> ELSE ss[1] \o Flatten(Tail(ss))

\* Series.unique(): first occurrences, in order
Unique(s) == SelectSeq([i \in 1..Len(s) |-> [i |-> i, v |-> s[i]]],
                       LAMBDA e : \A j \in 1..(e.i - 1) : s[j] # e.v)

Values(s) == [i \in 1..Len(s) |-> s[i].v]

s_options == <<"o","p","t","i","o","n","s">>
s_equity == <<"e","q","u","i","t","y">>
s_fii == <<"f","i","i">>
s_bdr == <<"b","d","r">>

(***************************************************************************)
(* B3Data.get_quotes, lines 185-214: the exploratory layer                 *)
(***************************************************************************)
\* t.endswith(('3', '4', '5', '6', '11'))
EquitySuffix(t) ==
    \E suf \in {<<"3">>, <<"4">>, <<"5">>, <<"6">>, <<"1","1">>} : EndsWith(t, suf)

\* asset_info['TICKERS_HISTORICOS'].str.split(' | ').explode().unique(), then
\* the tickers of valid format
valid_tickers(asset_info) ==
    LET all_tickers_raw ==
            Values(Unique(Flatten([i \in 1..Len(asset_info) |->
                RegexSplitSpaceOrSpace(asset_info[i].TICKERS_HISTORICOS)])))
    IN SelectSeq(all_tickers_raw, LAMBDA t : t # <<>> /\ MatchValidTicker(t))

Resolved(status, exc, params, root) ==
    [status |-> status, exc |-> exc, params |-> params, root |-> root]

\* What the entity branches do to the call: continue with (possibly changed)
\* params, return an empty frame at once, or raise.
ResolveEntity(dic, kwargs) ==
    LET entity_query == Get(kwargs, "entity")
    IN IF Truthy(entity_query) /\ Get(kwargs, "asset_class") = PyStr(s_options)
       THEN IF find_assets_exc(entity_query.s) # ""
            THEN Resolved("raise", find_assets_exc(entity_query.s), kwargs, PyNone)
            ELSE LET asset_info == find_assets(dic, entity_query.s)
                 IN IF asset_info # <<>>
                    THEN LET main_ticker == asset_info[1].ULTIMO_TICKER
                         IN IF IsNA(main_ticker)
                            THEN Resolved("raise", "TypeError", kwargs, PyNone)
                            ELSE IF ~MatchRoot(main_ticker)
                            THEN Resolved("raise", "AttributeError", kwargs, PyNone)
                            ELSE Resolved("continue", "", Del(kwargs, "entity"),
                                          PyStr(SubSeq(main_ticker, 1, 4)))
                    ELSE Resolved("return_empty", "", kwargs, PyNone)
       ELSE IF Truthy(entity_query) /\ "tickers" \notin DOMAIN kwargs
       THEN IF find_assets_exc(entity_query.s) # ""
            THEN Resolved("raise", find_assets_exc(entity_query.s), kwargs, PyNone)
            ELSE LET asset_info == find_assets(dic, entity_query.s)
                 IN IF asset_info # <<>>
                    THEN LET valid == valid_tickers(asset_info)
                         IN IF Get(kwargs, "asset_class") = PyStr(s_equity)
                            THEN Resolved("continue", "",
                                     Put(kwargs, "tickers",
                                         PyList(SelectSeq(valid, EquitySuffix))), PyNone)
                            ELSE Resolved("continue", "",
                                     Put(kwargs, "tickers", PyList(valid)), PyNone)
                    ELSE Resolved("return_empty", "", kwargs, PyNone)
       ELSE Resolved("continue", "", kwargs, PyNone)

\* lines 217-219
valid_starters == {"tickers", "entity", "codisi", "codbdi", "tpmerc",
                   "asset_class", "ticker_root"}

\* (a validation that takes any criterion for a starter)
HasStarterAnyCriterion(params) == DOMAIN params # {}

HasStarter(params) == DOMAIN params \cap valid_starters # {}

(***************************************************************************)
(* B3Data._build_parquet_filters                                           *)
(***************************************************************************)
Filter(col, op, val) == [col |-> col, op |-> op, val |-> val]

DigitVal(c) == (CHOOSE i \in 1..Len(Digits) : Digits[i] = c) - 1

\* the number written by a string of digits
RECURSIVE DigitsVal(_)
DigitsVal(s) ==
    IF s = <<>> THEN 0
    ELSE 10 * DigitsVal(SubSeq(s, 1, Len(s) - 1)) + DigitVal(s[Len(s)])

AllDigits(s) == s # <<>> /\ \A i \in 1..Len(s) : IsDigitChar(s[i])

\* the number of days of a month of the Gregorian calendar
DaysInMonth(y, m) ==
    IF m = 2
    THEN (IF (y % 4 = 0 /\ y % 100 # 0) \/ y % 400 = 0 THEN 29 ELSE 28)
    ELSE IF m \in {4, 6, 9, 11} THEN 30 ELSE 31

(***************************************************************************)
(* pd.to_datetime(value) of line 139 on one string.  pandas and dateutil   *)
(* are not part of the repository and the repository pins no version of    *)
(* them, so the model decides the strings below, on which the parsers of   *)
(* pandas 1, 2 and 3 agree, and leaves every other string open:            *)
(*   - '', 'NaT', 'nat', 'NAT', 'nan', 'NaN', 'NAN': the missing date NaT; *)
(*   - 'now', 'today': the time of the call;                               *)
(*   - a date: YYYYMMDD, YYYY, or fields between '-', between '/' or       *)
(*     between '.': year-month-day, month-day-year (day-month-year when    *)
(*     the first field is more than 12), and between '-' or '/' also       *)
(*     year-month, month-year and month-day-YY with YY from 00 to 68 (the  *)
(*     years 2000 to 2068); a year has four digits, a month and a day one  *)
(*     or two;                                                             *)
(*   - a date with the month by its English name, whole or abbreviated     *)
(*     ('Sep' and 'Sept'), in any case: 'Jan 3 2023', 'Jan 3, 2023',       *)
(*     '3 Jan 2023', '3-Oct-2023', 'Oct/3/2023', '2023-Oct-3', 'May 2023'; *)
(*   - a date, ' ' and a time of day H:M, H:M:S or H:M:S.f (f of one to    *)
(*     six digits); after a date YYYY-MM-DD the time may follow 'T' and    *)
(*     may be HH alone;                                                    *)
(*   - a date with a time and a time zone 'Z', ' UTC', '+HH:MM' or '+HHMM' *)
(*     ('-' for '+', a space before the sign or none);                     *)
(*   - a string that has one of these forms and names no day of the        *)
(*     calendar or no time of the day ('2023-02-31', '2023-01-03 24:00'),  *)
(*     and a string of letters that is no word of a date ('bad'):          *)
(*     pd.to_datetime raises ValueError.                                   *)
(* An open string (another form dateutil may read, a year of two digits    *)
(* from 69 on, a word of dates alone) is converted or refused as `guess`   *)
(* says, an input of the call like the clock: the refusal, or the          *)
(* Timestamp it is taken for.  A date outside 1677-09-21 00:12:43.145224193*)
(* .. 2262-04-11 23:47:16.854775807 raises OutOfBoundsDatetime, a          *)
(* ValueError, where Timestamps count nanoseconds (pandas 1 and 2) and is  *)
(* converted where they do not (pandas 3): `guess` says which.             *)
(*                                                                         *)
(* A Timestamp is a day YYYYMMDD, a second of that day, the nanoseconds of *)
(* that second and whether it has a time zone; NaT has the day 0.          *)
(***************************************************************************)
Timestamp(day, second, nano, tz) == [day |-> day, second |-> second, nano |-> nano, tz |-> tz]
NaT == Timestamp(0, 0, 0, FALSE)

\* the guess that pd.to_datetime refuses the string
Refused == Timestamp(0 - 1, 0, 0, FALSE)

\* the Timestamp of a day YYYYMMDD of the store (midnight), NaT for NaT
Midnight(day) == Timestamp(day, 0, 0, FALSE)

\* a <= b of two Timestamps that are not NaT
TsLeq(a, b) ==
    \/ a.day < b.day
    \/ a.day = b.day /\ a.second < b.second
    \/ a.day = b.day /\ a.second = b.second /\ a.nano <= b.nano

NatStrings == { <<>>, <<"N","a","T">>, <<"n","a","t">>, <<"N","A","T">>,
                <<"n","a","n">>, <<"N","a","N">>, <<"N","A","N">> }
NowStrings == { <<"n","o","w">>, <<"t","o","d","a","y">> }

MonthNames ==
    << <<"J","A","N","U","A","R","Y">>,
       <<"F","E","B","R","U","A","R","Y">>,
       <<"M","A","R","C","H">>,
       <<"A","P","R","I","L">>,
       <<"M","A","Y">>,
       <<"J","U","N","E">>,
       <<"J","U","L","Y">>,
       <<"A","U","G","U","S","T">>,
       <<"S","E","P","T","E","M","B","E","R">>,
       <<"O","C","T","O","B","E","R">>,
       <<"N","O","V","E","M","B","E","R">>,
       <<"D","E","C","E","M","B","E","R">> >>

\* the names of the month i: whole, its first three letters, and 'Sept'
NamesOfMonth(i) ==
    {MonthNames[i], SubSeq(MonthNames[i], 1, 3)}
        \cup (IF i = 9 THEN {SubSeq(MonthNames[i], 1, 4)} ELSE {})

\* the number of the month called name, 0 when name is no month
MonthOf(u) ==
    IF \E i \in 1..12 : u \in NamesOfMonth(i)
    THEN CHOOSE i \in 1..12 : u \in NamesOfMonth(i)
    ELSE 0
MonthNumber(name) == MonthOf(Upper(name))

\* the words other than the months that dateutil and pandas know, in capitals
DateWords ==
    { <<"M","O","N">>, <<"M","O","N","D","A","Y">>, <<"T","U","E">>, <<"T","U","E","S">>,
      <<"T","U","E","S","D","A","Y">>, <<"W","E","D">>, <<"W","E","D","N","E","S","D","A","Y">>,
      <<"T","H","U">>, <<"T","H","U","R">>, <<"T","H","U","R","S">>,
      <<"T","H","U","R","S","D","A","Y">>, <<"F","R","I">>, <<"F","R","I","D","A","Y">>,
      <<"S","A","T">>, <<"S","A","T","U","R","D","A","Y">>, <<"S","U","N">>,
      <<"S","U","N","D","A","Y">>,
      <<"A","M">>, <<"P","M">>, <<"A">>, <<"P">>,
      <<"U","T","C">>, <<"G","M","T">>, <<"Z">>,
      <<"A","T">>, <<"O","N">>, <<"A","N","D">>, <<"A","D">>, <<"M">>, <<"T">>, <<"O","F">>,
      <<"S","T">>, <<"N","D">>, <<"R","D">>, <<"T","H">>,
      <<"H">>, <<"H","O","U","R">>, <<"H","O","U","R","S">>,
      <<"M","I","N","U","T","E">>, <<"M","I","N","U","T","E","S">>,
      <<"S">>, <<"S","E","C","O","N","D">>, <<"S","E","C","O","N","D","S">>,
      <<"N","O","W">>, <<"T","O","D","A","Y">>, <<"N","A","T">>, <<"N","A","N">>,
      <<"N","A">>, <<"N","O","N","E">>, <<"N","U","L","L">>, <<"I","N","F">>,
      <<"I","N","F","I","N","I","T","Y">> }

\* s is letters only
IsLetters(s) == s # <<>> /\ \A i \in 1..Len(s) : IsUpperChar(s[i]) \/ IsLowerChar(s[i])

\* s is a word that is no word of a date
IsNoDateWord(s) == IsLetters(s) /\ MonthNumber(s) = 0 /\ Upper(s) \notin DateWords

\* the number a field of four digits (a year) writes, -1 for any other field
YearField(f) == IF Len(f) = 4 /\ AllDigits(f) THEN DigitsVal(f) ELSE 0 - 1
\* the number a field of one or two digits writes, -1 for any other field
ShortField(f) == IF Len(f) \in {1, 2} /\ AllDigits(f) THEN DigitsVal(f) ELSE 0 - 1
\* the year a field of two digits from 00 to 68 writes, -1 for any other field
CenturyField(f) ==
    IF Len(f) = 2 /\ AllDigits(f) /\ DigitsVal(f) <= 68 THEN 2000 + DigitsVal(f) ELSE 0 - 1

Ymd(y, m, d) == [y |-> y, m |-> m, d |-> d]
NoDate == Ymd(0 - 1, 0 - 1, 0 - 1)

\* two fields before the year: month and day, or day and month when the
\* first cannot be a month
MonthFirst(a, b, y) == IF a > 12 THEN Ymd(y, b, a) ELSE Ymd(y, a, b)

\* month, day and a year of two digits; a first field over 31 would be the year
ShortYearLast(a, b, y) == IF a > 31 THEN NoDate ELSE MonthFirst(a, b, y)

\* what a field or a word of a date may write: y a year of four digits, n a
\* number of one or two digits, c a year of two digits (each -1 when the
\* field does not write it), m the month it names (0 when it names none)
Field(y, n, c, m) == [y |-> y, n |-> n, c |-> c, m |-> m]
FieldOf(f) == Field(YearField(f), ShortField(f), CenturyField(f), MonthNumber(f))
FieldRecords(f) == [i \in 1..Len(f) |-> FieldOf(f[i])]

\* year and month, or month and year
TwoFields(a, b) == IF a.y >= 0 THEN Ymd(a.y, b.n, 1) ELSE Ymd(b.y, a.n, 1)

\* three fields of digits
ThreeFields(a, b, c, sep) ==
    IF a.y >= 0 THEN Ymd(a.y, b.n, c.n)
    ELSE IF c.y >= 0 THEN MonthFirst(a.n, b.n, c.y)
    ELSE IF sep # "." THEN ShortYearLast(a.n, b.n, c.c)
    ELSE NoDate

\* three fields, the first or the second the name of the month, the year of
\* four digits first or last
NamedFields(a, b, c) ==
    IF a.m > 0 THEN Ymd(c.y, a.m, b.n)
    ELSE IF b.m = 0 THEN NoDate
    ELSE IF a.y >= 0 THEN Ymd(a.y, b.m, c.n)
    ELSE Ymd(c.y, b.m, a.n)

\* the date the fields F, which sep separates, write
DateOfRecords(F, sep) ==
    IF Len(F) = 1 THEN Ymd(F[1].y, 1, 1)
    ELSE IF sep = "." /\ Len(F) # 3 THEN NoDate
    ELSE IF Len(F) = 2 THEN TwoFields(F[1], F[2])
    ELSE IF Len(F) # 3 THEN NoDate
    ELSE IF F[1].m = 0 /\ F[2].m = 0 THEN ThreeFields(F[1], F[2], F[3], sep)
    ELSE IF sep # "." THEN NamedFields(F[1], F[2], F[3])
    ELSE NoDate

DateOfFields(f, sep) == DateOfRecords(FieldRecords(f), sep)

\* the separator of the fields of a date: '-', or else '/', or else '.'
Separator(d) ==
    IF Len(Split(d, <<"-">>)) > 1 THEN "-"
    ELSE IF Len(Split(d, <<"/">>)) > 1 THEN "/"
    ELSE "."

\* the date of the fields of d between the separators sep
SeparatedDate(d, sep) == DateOfFields(Split(d, <<sep>>), sep)

\* the date a string without spaces writes
NumericDate(d) ==
    IF Len(d) = 8 /\ AllDigits(d)
    THEN Ymd(DigitsVal(SubSeq(d, 1, 4)), DigitsVal(SubSeq(d, 5, 6)),
             DigitsVal(SubSeq(d, 7, 8)))
    ELSE SeparatedDate(d, Separator(d))

\* a word without the comma that ends it
Uncomma(w) == IF w # <<>> /\ w[Len(w)] = "," THEN SubSeq(w, 1, Len(w) - 1) ELSE w
Uncommas(w) == [i \in 1..Len(w) |-> Uncomma(w[i])]

\* the date of the words F, one of the first two the name of the month:
\* 'May 2023', 'Jan 3 2023', 'Jan 3, 2023', '3 Jan 2023', '2023 Jan 3'
NamedDate(F) ==
    IF Len(F) = 2 THEN Ymd(F[2].y, F[1].m, 1)
    ELSE NamedFields(F[1], F[2], F[3])

\* a time of day: hour, minute, second and nanoseconds
Hms(h, m, s, nano) == [h |-> h, m |-> m, s |-> s, nano |-> nano]
NoTime == Hms(0 - 1, 0 - 1, 0 - 1, 0 - 1)
StartOfDay == Hms(0, 0, 0, 0)

RECURSIVE Pow10(_)
Pow10(n) == IF n = 0 THEN 1 ELSE 10 * Pow10(n - 1)

\* the nanoseconds the digits f after the point write, -1 unless f is one to
\* six digits
FractionNano(f) ==
    IF Len(f) \in 1..6 /\ AllDigits(f) THEN DigitsVal(f) * Pow10(9 - Len(f)) ELSE 0 - 1

\* the time h:m and the seconds field, whose parts about the point are p
WithSeconds(h, m, p) ==
    IF Len(p) = 1 THEN Hms(h, m, ShortField(p[1]), 0)
    ELSE IF Len(p) = 2 THEN Hms(h, m, ShortField(p[1]), FractionNano(p[2]))
    ELSE NoTime

\* the time of day the fields f of a time between ':' write
TimeOfFields(f) ==
    IF Len(f) = 2 THEN Hms(ShortField(f[1]), ShortField(f[2]), 0, 0)
    ELSE IF Len(f) = 3
    THEN WithSeconds(ShortField(f[1]), ShortField(f[2]), Split(f[3], <<".">>))
    ELSE NoTime

\* d is a date YYYY-MM-DD
IsIsoDate(d) ==
    /\ Len(d) = 10
    /\ Len(Split(d, <<"-">>)) = 3
    /\ Len(Split(d, <<"-">>)[1]) = 4

\* the time of day the time t writes after the date d
TimeOfDay(d, t) ==
    IF Len(t) = 2 /\ AllDigits(t) /\ IsIsoDate(d)
    THEN Hms(DigitsVal(t), 0, 0, 0)
    ELSE TimeOfFields(Split(t, <<":">>))

\* what was read of a string: a date, a time of day and whether a time of
\* day was written
Reading(date, time, timed) == [date |-> date, time |-> time, timed |-> timed]
Unread == Reading(NoDate, NoTime, FALSE)

\* the words of s: a date YYYY-MM-DD and the time after its 'T', whose parts
\* are tparts, or else the words between spaces
IsoWords(s, tparts) ==
    IF Len(tparts) = 2 /\ IsIsoDate(tparts[1]) THEN tparts ELSE Split(s, <<" ">>)
Words(s) == IsoWords(s, Split(s, <<"T">>))

\* the last of two or four words is a time of day; two words of which the
\* first names a month are a month and a year
TimedWords(w) == Len(w) = 4 \/ (Len(w) = 2 /\ MonthNumber(w[1]) = 0)

DateOfWords(w, timed) ==
    IF Len(w) = 1 \/ (Len(w) = 2 /\ timed) THEN NumericDate(w[1])
    ELSE NamedDate(FieldRecords(Uncommas(w)))

TimeOfWords(w, timed) == IF timed THEN TimeOfDay(w[1], w[Len(w)]) ELSE StartOfDay

ReadTimed(w, timed) == Reading(DateOfWords(w, timed), TimeOfWords(w, timed), timed)

\* the words of a string
ReadWords(w) == IF Len(w) \in 1..4 THEN ReadTimed(w, TimedWords(w)) ELSE Unread

\* z is an offset from UTC: a sign, then HH:MM or HHMM, up to 14:00
IsOffset(z) ==
    /\ Len(z) \in {5, 6}
    /\ z[1] \in {"+", "-"}
    /\ Len(z) = 6 => z[4] = ":"
    /\ AllDigits(SubSeq(z, 2, 3))
    /\ AllDigits(SubSeq(z, Len(z) - 1, Len(z)))
    /\ DigitsVal(SubSeq(z, 2, 3)) * 100 + DigitsVal(SubSeq(z, Len(z) - 1, Len(z))) <= 1400
    /\ DigitsVal(SubSeq(z, Len(z) - 1, Len(z))) <= 59

\* the last n characters of s, all of s when it has fewer
LastChars(s, n) == SubSeq(s, IF Len(s) > n THEN Len(s) - n + 1 ELSE 1, Len(s))

\* the number of characters of the time zone that ends s, 0 when none does
ZoneLen(s) ==
    IF LastChars(s, 1) = <<"Z">> THEN 1
    ELSE IF LastChars(s, 4) = <<" ","U","T","C">> THEN 4
    ELSE IF IsOffset(LastChars(s, 6))
    THEN (IF LastChars(s, 7)[1] = " " THEN 7 ELSE 6)
    ELSE IF IsOffset(LastChars(s, 5))
    THEN (IF LastChars(s, 6)[1] = " " THEN 6 ELSE 5)
    ELSE 0

\* s without its last n characters
Unzoned(s, n) == SubSeq(s, 1, Len(s) - n)

\* the last n characters of s are the time zone of a time of day
HasZone(s, n) == n > 0 /\ ":" \in Range(Unzoned(s, n))

\* every field of the date was read
DateRead(date) == date.y >= 0 /\ date.m >= 0 /\ date.d >= 0

\* every field of the reading r was read
IsRead(r) ==
    /\ DateRead(r.date)
    /\ r.time.h >= 0 /\ r.time.m >= 0 /\ r.time.s >= 0 /\ r.time.nano >= 0

\* the reading of a string and whether it has a time zone
Zoned(r, zoned) == [r |-> r, zoned |-> zoned]

ReadBody(body, zoned) == Zoned(ReadWords(Words(body)), zoned)

\* s read whole, or read up to the n characters of its time zone
ReadZoned(s, n) == ReadBody(IF HasZone(s, n) THEN Unzoned(s, n) ELSE s, HasZone(s, n))

ReadString(s) == ReadZoned(s, ZoneLen(s))

\* the year y, the month m and the day d are a day of the calendar
IsCalendarDay(y, m, d) == y >= 1 /\ m \in 1..12 /\ d \in 1..DaysInMonth(y, m)

\* h:m:s is a time of the day
IsTimeOfDay(t) == t.h \in 0..23 /\ t.m \in 0..59 /\ t.s \in 0..59

SecondOfDay(t) == t.h * 3600 + t.m * 60 + t.s

DayNumber(date) == (date.y * 100 + date.m) * 100 + date.d

\* the Timestamp is within the range of one that counts nanoseconds
InBounds(ts) ==
    /\ TsLeq(Timestamp(16770921, 763, 145224193, FALSE), ts)
    /\ TsLeq(ts, Timestamp(22620411, 85636, 854775807, FALSE))

\* the Timestamp of a reading whose fields are a day and a time of the day
TimestampOf(z) == Timestamp(DayNumber(z.r.date), SecondOfDay(z.r.time), z.r.time.nano, z.zoned)

\* what the model decides of the reading z of a string: "open" when the
\* string has no form of the model, "raises" when it names no day or no
\* time, "bounds" when the range of the Timestamp decides, else "value"
KindOfReading(z) ==
    IF ~IsRead(z.r) THEN "open"
    ELSE IF ~(IsCalendarDay(z.r.date.y, z.r.date.m, z.r.date.d) /\ IsTimeOfDay(z.r.time))
    THEN "raises"
    ELSE IF InBounds(TimestampOf(z)) THEN "value"
    ELSE "bounds"

\* what the model decides of pd.to_datetime(s), z the reading of s
KindOf(s, z) ==
    IF s \in NatStrings \cup NowStrings THEN "value"
    ELSE IF IsLetters(s) THEN (IF IsNoDateWord(s) THEN "raises" ELSE "open")
    ELSE KindOfReading(z)

DateKind(s) == KindOf(s, ReadString(s))

\* pd.to_datetime(value): the exception it raises, "" when none, and its value
Conversion(exc, val) == [exc |-> exc, val |-> val]

ConvertAs(s, kind, z, clock, guess) ==
    IF kind = "raises" \/ (kind \in {"open", "bounds"} /\ guess = Refused)
    THEN Conversion("ValueError", NaT)
    ELSE IF s \in NatStrings THEN Conversion("", NaT)
    ELSE IF s \in NowStrings THEN Conversion("", clock)
    ELSE IF kind = "open" THEN Conversion("", guess)
    ELSE Conversion("", TimestampOf(z))

ConvertRead(s, z, clock, guess) == ConvertAs(s, KindOf(s, z), z, clock, guess)

\* line 139: pd.to_datetime(value) of the string s at the time clock
Convert(s, clock, guess) == ConvertRead(s, ReadString(s), clock, guess)

\* line 139: pd.to_datetime(value) raises ValueError
ToDatetimeRaises(s, guess) == Convert(s, NaT, guess).exc # ""

\* line 139: pd.to_datetime(value) of a string it converts
to_datetime(s, clock, guess) == Convert(s, clock, guess).val

\* lines 120-125
AssetClassFilters(params) ==
    LET asset_class == Get(params, "asset_class")
    IN IF Truthy(asset_class)
       THEN LET ac_lower == Lower(asset_class.s)
            IN IF ac_lower = s_equity
               THEN << Filter("CODBDI", "in", <<2, 96>>), Filter("TPMERC", "in", <<10, 20>>) >>
               ELSE IF ac_lower = s_fii
               THEN << Filter("CODBDI", "==", 12) >>
               ELSE IF ac_lower = s_options
               THEN << Filter("TPMERC", "in", <<70, 80, 12, 13>>) >>
               ELSE <<>>
       ELSE <<>>

\* lines 129-133, in the order of the dict
filter_map == << [arg |-> "start_date", col |-> "DATA_PREGAO", op |-> ">="],
                 [arg |-> "end_date", col |-> "DATA_PREGAO", op |-> "<="],
                 [arg |-> "vencimento_min", col |-> "DATVEN", op |-> ">="],
                 [arg |-> "vencimento_max", col |-> "DATVEN", op |-> "<="],
                 [arg |-> "tickers", col |-> "CODNEG", op |-> "in"],
                 [arg |-> "codisi", col |-> "CODISI", op |-> "in"] >>

Built(exc, filters) == [exc |-> exc, filters |-> filters]

\* lines 139-140 for a date: the exception of pd.to_datetime, or the filter
DateFilter(m, conv) ==
    IF conv.exc # "" THEN Built(conv.exc, <<>>)
    ELSE Built("", << Filter(m.col, m.op, conv.val) >>)

\* lines 135-140 for one entry of filter_map
ArgFilter(params, m, clock, guess) ==
    LET value == Get(params, m.arg)
    IN IF value = PyNone THEN Built("", <<>>)
       ELSE IF m.op = "in"
       THEN LET aslist == IF value.t = "list" THEN value.l ELSE <<value.s>>
                vals == IF m.arg = "tickers"
                        THEN [i \in 1..Len(aslist) |-> Upper(aslist[i])]
                        ELSE aslist
            IN Built("", << Filter(m.col, m.op, vals) >>)
       ELSE DateFilter(m, Convert(value.s, clock, guess))

\* The code dictionaries (description -> code) of create_code_dictionaries:
\* the entries whose description is written in the characters of the model.
s_VISTA == <<"V","I","S","T","A">>
s_TERMO == <<"T","E","R","M","O">>
s_TOTAL == <<"T","O","T","A","L">>
s_BOVESPAFIX == <<"B","O","V","E","S","P","A","F","I","X">>
codbdi_map ==
    { <<<<"S","A","N","C","I","O","N","A","D","A","S">>, 5>>,
      <<<<"D","I","R","E","I","T","O","S"," ","E"," ","R","E","C","I","B","O","S">>, 10>>,
      <<<<"C","E","R","T","I","F","I","C","A","D","O","S"," ","D","E"," ",
          "I","N","V","E","S","T","I","M","E","N","T","O">>, 14>>,
      <<s_BOVESPAFIX, 83>>,
      <<<<"S","O","M","A"," ","F","I","X">>, 84>>,
      <<s_TERMO, 90>>,
      <<s_TOTAL, 99>> }
tpmerc_map == { <<s_VISTA, 10>>, <<s_TERMO, 30>> }

MapHas(code_map, key) == \E e \in code_map : e[1] = key
MapGet(code_map, key) == (CHOOSE e \in code_map : e[1] = key)[2]

\* str.strip() of the spaces
RECURSIVE Strip(_)
Strip(s) ==
    IF s # <<>> /\ s[1] = " " THEN Strip(Tail(s))
    ELSE IF s # <<>> /\ s[Len(s)] = " " THEN Strip(SubSeq(s, 1, Len(s) - 1))
    ELSE s

\* what follows the sign of a string
Unsigned(t) == IF t # <<>> /\ t[1] \in {"+", "-"} THEN Tail(t) ELSE t

\* the string int() reads after the spaces around it and the sign
IntDigits(s) == Unsigned(Strip(s))

\* d is not digits that single underscores may separate
BadDigits(d) ==
    \/ d = <<>>
    \/ \E i \in 1..Len(d) : ~IsDigitChar(d[i]) /\ d[i] # "_"
    \/ d[1] = "_" \/ d[Len(d)] = "_"
    \/ \E i \in 1..(Len(d) - 1) : d[i] = "_" /\ d[i + 1] = "_"

\* int(s) of a string raises ValueError unless s is, between spaces, an
\* optional sign and digits, which single underscores may separate
IntRaises(s) == BadDigits(IntDigits(s))

\* the number of the sign sign and the digits d
Signed(sign, d) ==
    IF sign = "-" THEN 0 - DigitsVal(SelectSeq(d, IsDigitChar))
    ELSE DigitsVal(SelectSeq(d, IsDigitChar))

\* int(s) of a string it accepts
IntOf(s) == Signed(Strip(s)[1], IntDigits(s))

\* the first exception of a sequence of results, "" when none raised
RECURSIVE FirstExc(_)
FirstExc(rs) ==
    IF rs = <<>> THEN ""
    ELSE IF rs[1].exc # "" THEN rs[1].exc
    ELSE FirstExc(Tail(rs))

\* line 147: the exception of int(code_map.get(str(item).upper(), item)), ""
\* when it raises none: str(None).upper() is 'NONE', no description of a map,
\* and int(None) raises TypeError
CodeExc(code_map, item) ==
    IF item.t = "none" THEN "TypeError"
    ELSE IF item.t = "str" /\ ~MapHas(code_map, Upper(item.s)) /\ IntRaises(item.s)
    THEN "ValueError"
    ELSE ""

\* line 147: int(code_map.get(str(item).upper(), item)) raises
CodeRaises(code_map, item) == CodeExc(code_map, item) # ""

\* line 147: int(code_map.get(str(item).upper(), item))
CodeOf(code_map, item) ==
    IF item.t = "int" THEN item.n
    ELSE IF MapHas(code_map, Upper(item.s)) THEN MapGet(code_map, Upper(item.s))
    ELSE IntOf(item.s)

\* lines 144-148 for one of codbdi, tpmerc
CodeFilter(params, code_arg, col, code_map) ==
    LET value == Get(params, code_arg)
    IN IF value = PyNone THEN Built("", <<>>)
       ELSE LET items == IF value.t = "list" THEN value.l ELSE <<value>>
            IN IF \E i \in 1..Len(items) : CodeRaises(code_map, items[i])
               THEN Built(FirstExc([i \in 1..Len(items) |->
                                       Built(CodeExc(code_map, items[i]), <<>>)]), <<>>)
               ELSE Built("", << Filter(col, "in",
                        [i \in 1..Len(items) |-> CodeOf(code_map, items[i])]) >>)

build_parquet_filters(params, clock, guess) ==
    LET parts == [i \in 1..Len(filter_map) |-> ArgFilter(params, filter_map[i], clock, guess)]
                 \o << CodeFilter(params, "codbdi", "CODBDI", codbdi_map),
                       CodeFilter(params, "tpmerc", "TPMERC", tpmerc_map) >>
    IN IF FirstExc(parts) # ""
       THEN Built(FirstExc(parts), <<>>)
       ELSE Built("", AssetClassFilters(params)
                      \o Flatten([i \in 1..Len(parts) |-> parts[i].filters]))

(***************************************************************************)
(* B3Data.get_quotes, lines 224-267: projection, scan, post-filter, sort   *)
(***************************************************************************)
key_columns == {"DATA_PREGAO", "CODNEG", "CODISI"}
default_columns == {"PREABE", "PREMAX", "PREMIN", "PREULT", "VOLTOT", "QUATOT"}

\* line 234
NeedsEspeci(params) ==
    \/ Truthy(Get(params, "especificacao"))
    \/ Get(params, "asset_class") = PyStr(s_bdr)
    \/ Truthy(Get(params, "ticker_root"))

\* lines 225-236
columns_to_load(params) ==
    LET user_columns == Get(params, "columns")
        base == IF user_columns = PyNone
                THEN key_columns \cup default_columns
                ELSE key_columns \cup Range(user_columns.l)
    IN IF NeedsEspeci(params) THEN base \cup {"ESPECI"} ELSE base

\* a filter compares a date column with a Timestamp that has a time zone
ZonedFilter(f) == f.op \in {">=", "<="} /\ f.val.tz

\* one pushdown predicate on one row; a missing value satisfies none, and no
\* value satisfies a comparison with NaT
RowPasses(r, f) ==
    CASE f.op = "in" -> r[f.col] \in Range(f.val)
      [] f.op = "==" -> r[f.col] = f.val
      [] f.op = ">=" -> r[f.col] # 0 /\ f.val # NaT /\ TsLeq(f.val, Midnight(r[f.col]))
      [] f.op = "<=" -> r[f.col] # 0 /\ f.val # NaT /\ TsLeq(Midnight(r[f.col]), f.val)

Frame(exc, df) == [exc |-> exc, df |-> df]

\* pd.read_parquet(path, columns=..., filters=...): raises when the file cannot
\* be read, when a projected column is not in it, or when a filter compares
\* a date column, which has no time zone, with a Timestamp that has one
read_parquet(store, readable, columns, filters) ==
    IF ~readable THEN Frame("OSError", <<>>)
    ELSE IF ~(columns \subseteq StoreColumns) THEN Frame("ArrowInvalid", <<>>)
    ELSE IF \E i \in 1..Len(filters) : ZonedFilter(filters[i]) THEN Frame("ArrowInvalid", <<>>)
    ELSE Frame("", SelectSeq(store,
                     LAMBDA r : \A i \in 1..Len(filters) : RowPasses(r, filters[i])))

\* params.get('ticker_root') or ticker_root_for_options
EffectiveRoot(params, root) ==
    IF Truthy(Get(params, "ticker_root")) THEN Get(params, "ticker_root") ELSE root

\* line 251
IsBdr(params) ==
    Truthy(Get(params, "asset_class")) /\ Lower(Get(params, "asset_class").s) = s_bdr

\* lines 256-258: '|'.join(espec_value)
EspecAsList(espec_value) ==
    IF espec_value.t = "list" THEN espec_value.l ELSE <<espec_value.s>>

EspecPattern(params) == Join(EspecAsList(Get(params, "especificacao")), <<"|">>)

\* lines 245-247
RootFilter(params, root, df) ==
    LET ticker_root == EffectiveRoot(params, root)
    IN IF Truthy(ticker_root)
       THEN SelectSeq(df, LAMBDA r :
                ~IsNA(r.CODNEG) /\ StartsWith(r.CODNEG, Upper(ticker_root.s)))
       ELSE df

\* lines 250-252
BdrFilter(params, columns, df) ==
    IF ~IsBdr(params) THEN Frame("", df)
    ELSE IF "ESPECI" \notin columns THEN Frame("KeyError", <<>>)
    ELSE Frame("", SelectSeq(df, LAMBDA r :
                ~IsNA(r.ESPECI) /\ Search(<<"D","R">>, r.ESPECI, TRUE)))

\* lines 255-259
EspecFilter(params, columns, df) ==
    IF Get(params, "especificacao") = PyNone THEN Frame("", df)
    ELSE IF "ESPECI" \notin columns THEN Frame("KeyError", <<>>)
    ELSE IF RegexError(EspecPattern(params)) THEN Frame("re.error", <<>>)
    ELSE Frame("", SelectSeq(df, LAMBDA r :
                ~IsNA(r.ESPECI) /\ Search(EspecPattern(params), r.ESPECI, TRUE)))

\* lines 243-259
post_filter(params, root, columns, df) ==
    IF df = <<>> THEN Frame("", df)
    ELSE LET bdr == BdrFilter(params, columns, RootFilter(params, root, df))
         IN IF bdr.exc # "" THEN bdr
            ELSE EspecFilter(params, columns, bdr.df)

\* a post-filter that reads df['ESPECI'] runs on the scanned rows
ReadsEspeci(params, df) ==
    df # <<>> /\ (IsBdr(params) \/ Get(params, "especificacao") # PyNone)

\* row a sorts before row b by ['CODNEG', 'DATA_PREGAO'] (missing values last)
RowLess(a, b) ==
    IF a.CODNEG # b.CODNEG
    THEN ~IsNA(a.CODNEG) /\ (IsNA(b.CODNEG) \/ StrLess(a.CODNEG, b.CODNEG))
    ELSE a.DATA_PREGAO # 0 /\ (b.DATA_PREGAO = 0 \/ a.DATA_PREGAO < b.DATA_PREGAO)

\* insert row r into the sorted sequence s after the rows not greater than it
RECURSIVE Insert(_, _)
Insert(s, r) ==
    IF s = <<>> THEN <<r>>
    ELSE IF RowLess(r, s[1]) THEN <<r>> \o s
    ELSE <<s[1]>> \o Insert(Tail(s), r)

\* df.sort_values(by=['CODNEG', 'DATA_PREGAO']) (a stable sort)
RECURSIVE sort_values(_)
sort_values(df) ==
    IF df = <<>> THEN <<>>
    ELSE Insert(sort_values(SubSeq(df, 1, Len(df) - 1)), df[Len(df)])

(***************************************************************************)
(* B3Data.get_quotes as a whole                                            *)
(***************************************************************************)
Outcome(kwargs, readable, clock, guess, outcome, stage, exc, caught, res, scanned, filters, columns, reads, rows) ==
    [op |-> "get_quotes", kwargs |-> kwargs, query |-> <<>>, readable |-> readable,
     clock |-> clock,       \* the time of the call
     guess |-> guess,       \* what pd.to_datetime makes of an open string
     outcome |-> outcome,   \* "raised" | "returned"
     stage |-> stage,       \* where the call ended
     exc |-> exc,           \* the exception that left the call, "" if none
     caught |-> caught,     \* the exception caught at line 265, "" if none
     params |-> res.params, \* params after the exploratory layer
     root |-> res.root,     \* ticker_root_for_options
     scanned |-> scanned,   \* pd.read_parquet was called
     filters |-> filters,   \* the filter list built at line 222
     columns |-> columns,   \* columns_to_load
     reads_especi |-> reads,\* a post-filter indexed df['ESPECI']
     rows |-> rows]         \* the rows of the returned frame

\* (a call without the except clause: the exception leaves get_quotes)
Uncaught(kwargs, readable, clock, guess, stage, exc, res, filters, columns, reads) ==
    Outcome(kwargs, readable, clock, guess, "raised", stage, exc, "", res, TRUE, filters, columns,
            reads, <<>>)

\* lines 265-267: the exception is reported and an empty frame is returned
Caught(kwargs, readable, clock, guess, stage, exc, res, filters, columns, reads) ==
    Outcome(kwargs, readable, clock, guess, "returned", stage, "", exc, res, TRUE, filters, columns,
            reads, <<>>)

get_quotes(dic, store, readable, kwargs, clock, guess) ==
    LET res == ResolveEntity(dic, kwargs)
    IN IF res.status = "raise"
       THEN Outcome(kwargs, readable, clock, guess, "raised", "entity", res.exc, "", res,
                    FALSE, <<>>, {}, FALSE, <<>>)
       ELSE IF res.status = "return_empty"
       THEN Outcome(kwargs, readable, clock, guess, "returned", "entity", "", "", res,
                    FALSE, <<>>, {}, FALSE, <<>>)
       ELSE IF ~HasStarter(res.params)
       THEN Outcome(kwargs, readable, clock, guess, "raised", "validate", "ValueError", "", res,
                    FALSE, <<>>, {}, FALSE, <<>>)
       ELSE LET built == build_parquet_filters(res.params, clock, guess)
            IN IF built.exc # ""
               THEN Outcome(kwargs, readable, clock, guess, "raised", "filters", built.exc, "", res,
                            FALSE, <<>>, {}, FALSE, <<>>)
               ELSE LET columns == columns_to_load(res.params)
                        scan == read_parquet(store, readable, columns, built.filters)
                        post == post_filter(res.params, res.root, columns, scan.df)
                        reads == ReadsEspeci(res.params, scan.df)
                    IN IF scan.exc # ""
                       THEN Caught(kwargs, readable, clock, guess, "scan", scan.exc, res,
                                   built.filters, columns, FALSE)
                       ELSE IF post.exc # ""
                       THEN Caught(kwargs, readable, clock, guess, "post", post.exc, res,
                                   built.filters, columns, reads)
                       ELSE Outcome(kwargs, readable, clock, guess, "returned", "sorted", "", "",
                                    res, TRUE, built.filters, columns, reads,
                                    sort_values(post.df))

NoCall ==
    [op |-> "none", kwargs |-> <<>>, query |-> <<>>, readable |-> TRUE, clock |-> NaT,
     guess |-> NaT,
     outcome |-> "none", stage |-> "none", exc |-> "", caught |-> "",
     params |-> <<>>, root |-> PyNone, scanned |-> FALSE, filters |-> <<>>,
     columns |-> {}, reads_especi |-> FALSE, rows |-> <<>>]

FoundAssets(query, outcome, exc, rows) ==
    [NoCall EXCEPT !.op = "find_assets", !.query = query, !.outcome = outcome,
                   !.exc = exc, !.rows = rows]

(***************************************************************************)
(* The calls the model makes                                               *)
(***************************************************************************)
\* the largest number of criteria given in one call of get_quotes
MaxCriteria == 3
\* the largest length of the enumerated queries of find_assets
MaxQueryLen == 2

Kw(k, v) == [k |-> k, v |-> v]

s_2023_01_03 == <<"2","0","2","3","-","0","1","-","0","3">>
s_2023_01_20 == <<"2","0","2","3","-","0","1","-","2","0">>
s_bad == <<"b","a","d">>
s_today == <<"t","o","d","a","y">>
s_01_03_2023 == <<"0","1","/","0","3","/","2","0","2","3">>
s_01_03_70 == <<"0","1","/","0","3","/","7","0">>
s_3_Oct_2022 == <<"3","-","O","c","t","-","2","0","2","2">>
s_2023_01_03T1000Z == <<"2","0","2","3","-","0","1","-","0","3","T","1","0",":","0","0","Z">>
s_1500_01_01 == <<"1","5","0","0","-","0","1","-","0","1">>
s_Jan_20_2023 == <<"J","a","n"," ","2","0"," ","2","0","2","3">>

\* the times at which the calls are made
FirstClock == Timestamp(20230103, 36000, 0, FALSE)
Clocks == { FirstClock, Timestamp(20230104, 0, 0, FALSE) }

\* what pd.to_datetime may make of a string the model leaves open: the
\* refusal, a day before the days of the store, a day after them
DateGuesses == { Refused, Midnight(19700103), Midnight(20700103) }

date_args == {"start_date", "end_date", "vencimento_min", "vencimento_max"}

\* the strings of the date criteria of a call
DateStrings(kwargs) ==
    { kwargs[k].s : k \in { a \in date_args \cap DOMAIN kwargs : kwargs[a] # PyNone } }

\* the clocks and the guesses a call can tell apart: all of them when a
\* date criterion reads the clock or is left to the guess, else one
ClocksOf(kwargs) ==
    IF DateStrings(kwargs) \cap NowStrings # {} THEN Clocks
    ELSE { FirstClock }
GuessesOf(kwargs) ==
    IF \E s \in DateStrings(kwargs) : DateKind(s) \in {"open", "bounds"} THEN DateGuesses
    ELSE { Refused }
s_2023_01_03_100000_5 == <<"2","0","2","3",".","0","1",".","0","3"," ","1","0",":","0","0",":","0","0",".","5">>
s_2023_02_31 == <<"2","0","2","3","-","0","2","-","3","1">>

KwChoices ==
    { Kw("tickers", PyStr(<<"p","e","t","r","4">>)),
      Kw("tickers", PyList(<<s_VALE3, s_VALEA1>>)),
      Kw("tickers", PyNone),
      Kw("entity", PyStr(s_VALE)),
      Kw("entity", PyStr(s_B3)),
      Kw("entity", PyStr(<<"p","e","t","r","o">>)),
      Kw("entity", PyStr(<<"Z","Z">>)),
      Kw("asset_class", PyStr(s_equity)),
      Kw("asset_class", PyStr(s_fii)),
      Kw("asset_class", PyStr(s_options)),
      Kw("asset_class", PyStr(s_bdr)),
      Kw("asset_class", PyStr(<<"B","D","R">>)),
      Kw("asset_class", PyStr(<<"e","t","f">>)),
      Kw("codisi", PyStr(s_BRPETR)),
      Kw("codisi", PyList(<<s_BRVALE, s_BRVALO>>)),
      Kw("codbdi", PyInt(2)),
      Kw("codbdi", PyStr(s_TOTAL)),
      Kw("codbdi", PyStr(<<"F","O","O">>)),
      Kw("tpmerc", PyStr(<<"v","i","s","t","a">>)),
      Kw("tpmerc", PyList(<<PyInt(70), PyStr(<<"2","0">>)>>)),
      Kw("ticker_root", PyStr(<<"v","a","l","e">>)),
      Kw("ticker_root", PyStr(s_PETR)),
      Kw("start_date", PyStr(s_2023_01_03)),
      Kw("start_date", PyStr(s_bad)),
      Kw("start_date", PyStr(s_today)),
      Kw("start_date", PyStr(s_01_03_2023)),
      Kw("end_date", PyStr(s_2023_01_03T1000Z)),
      Kw("vencimento_min", PyStr(s_1500_01_01)),
      Kw("vencimento_max", PyStr(s_Jan_20_2023)),
      Kw("end_date", PyStr(s_01_03_70)),
      Kw("vencimento_min", PyStr(s_3_Oct_2022)),
      Kw("codbdi", PyList(<<PyNone, PyInt(2)>>)),
      Kw("especificacao", PyStr(<<"o","+","n">>)),
      Kw("especificacao", PyStr(<<"P","N","|","C","I">>)),
      Kw("start_date", PyStr(s_2023_01_03_100000_5)),
      Kw("end_date", PyStr(<<>>)),
      Kw("vencimento_min", PyStr(s_2023_02_31)),
      Kw("codbdi", PyStr(<<" ","1","_","2">>)),
      Kw("codbdi", PyStr(<<"b","o","v","e","s","p","a","f","i","x">>)),
      Kw("columns", PyList(<<"PREMED">>)),
      Kw("end_date", PyStr(s_2023_01_03)),
      Kw("vencimento_min", PyStr(s_2023_01_20)),
      Kw("vencimento_max", PyStr(s_2023_01_03)),
      Kw("especificacao", PyStr(<<"o","n">>)),
      Kw("especificacao", PyList(<<s_PN, s_CI>>)),
      Kw("especificacao", PyStr(<<>>)),
      Kw("especificacao", PyStr(<<"(">>)),
      Kw("columns", PyList(<<"PREULT">>)),
      Kw("columns", PyList(<<"ESPECI", "TPMERC">>)),
      Kw("columns", PyList(<<"NOPE">>)) }

\* the sets of at most n choices, no two for the same keyword
RECURSIVE ChoiceSets(_)
ChoiceSets(n) ==
    IF n = 0 THEN {{}}
    ELSE LET prev == ChoiceSets(n - 1)
         IN prev \cup { T \cup {c} : <<T, c>> \in
                          { tc \in prev \X KwChoices :
                              \A d \in tc[1] : d.k # tc[2].k } }

\* the keyword arguments of one call: a function from the supplied names
MakeKwargs(T) == [k \in { c.k : c \in T } |-> (CHOOSE c \in T : c.k = k).v]

\* the calls of at most n criteria
KwargsSet(n) == { MakeKwargs(T) : T \in ChoiceSets(n) }

QueryChars == {"P", "O", "3", "e", ".", "(", " ", "+", "|"}

RECURSIVE StringsUpTo(_)
StringsUpTo(n) ==
    IF n = 0 THEN {<<>>}
    ELSE LET prev == StringsUpTo(n - 1)
         IN prev \cup { Append(q, c) : q \in prev, c \in QueryChars }

Queries ==
    StringsUpTo(MaxQueryLen)
    \cup { s_PETR4, <<"p","e","t","r","3">>, <<"P","E","T","R",".">>, s_PETR,
           s_BRPETR, <<"b","r","v","a","l","e">>, s_VALE, s_PETRO,
           <<"V","A","L","E","(">>, s_HGLG11 }

(***************************************************************************)
(* The engine in use: calls of get_quotes and find_assets on one instance  *)
(***************************************************************************)
NoBuild == [phase |-> "none"]

Init ==
    /\ df_dicionario \in create_security_master(QuoteStore)
    /\ pc = "idle"
    /\ call = NoCall
    /\ build = NoBuild

GetQuotes(kwargs, readable, clock, guess) ==
    /\ call' = get_quotes(df_dicionario, QuoteStore, readable, kwargs, clock, guess)
    /\ pc' = "done"
    /\ UNCHANGED <<df_dicionario, build>>

FindAssets(query) ==
    /\ call' = IF find_assets_exc(query) # ""
               THEN FoundAssets(query, "raised", find_assets_exc(query), <<>>)
               ELSE FoundAssets(query, "returned", "", find_assets(df_dicionario, query))
    /\ pc' = "done"
    /\ UNCHANGED <<df_dicionario, build>>

\* the caller takes the result; the engine keeps no state of the call
Return ==
    /\ pc = "done"
    /\ pc' = "idle"
    /\ call' = NoCall
    /\ UNCHANGED <<df_dicionario, build>>

Next ==
    \/ pc = "idle" /\ \E kwargs \in KwargsSet(MaxCriteria), readable \in BOOLEAN :
                         \E clock \in ClocksOf(kwargs), guess \in GuessesOf(kwargs) :
                             GetQuotes(kwargs, readable, clock, guess)
    \/ pc = "idle" /\ \E query \in Queries : FindAssets(query)
    \/ Return

Spec == Init /\ [][Next]_vars

(***************************************************************************)
(* raw_data_processor.process_text_to_parquet                              *)
(*                                                                         *)
(* A text file is a sequence of lines.  A line is its kind: "H" the        *)
(* header, "T" the trailer, "text" a record whose CODISI holds text,       *)
(* "missing" a record whose CODISI is blank, "blank" a line of spaces.     *)
(* A file also says where processing it fails: nowhere, at open/readlines  *)
(* ("read"), or in the decoding ("decode") or the writing ("write") of its *)
(* batch number `batch`.  The schema of a table is the Arrow type of its   *)
(* CODISI column, the one column of the layout whose type depends on the   *)
(* rows: "string", or "double" when every value of the batch is missing.   *)
(***************************************************************************)
\* the rows per batch (500_000 in the code, scaled down)
BATCH_SIZE == 2
\* the largest number of lines of an input file
MaxLines == 5
\* the largest number of .txt files in the input directory
MaxFiles == 2
\* the number of times the build is run on the same inputs
MaxRuns == 2

Min(a, b) == IF a < b THEN a ELSE b

s_txt == <<".","t","x","t">>
TxtNames == << <<"B",".","T","X","T">>, <<"a",".","t","x","t">>,
               <<"c",".","t","x","t">>, <<"A",".","t","x","t">> >>
OtherName == <<"a",".","z","i","p">>

NoFault == [kind |-> "none", batch |-> 0]

RECURSIVE Contents(_)
Contents(n) ==
    IF n = 0 THEN {<<>>}
    ELSE LET prev == Contents(n - 1)
         IN prev \cup { Append(c, k) : c \in prev, k \in {"text", "missing", "blank"} }

\* the number of batches of n content lines: len(range(0, n, BATCH_SIZE))
NumBatches(n) == (n + BATCH_SIZE - 1) \div BATCH_SIZE

\* where the processing of a file of n content lines can fail
Faults(n) ==
    {NoFault} \cup [kind : {"decode", "write"}, batch : 1..NumBatches(n)]

\* the input files of the model
TextFiles(maxlines) ==
    { [lines |-> <<>>, fault |-> NoFault], [lines |-> <<"H">>, fault |-> NoFault],
      [lines |-> <<"H", "T">>, fault |-> [kind |-> "read", batch |-> 0]] }
    \cup UNION { { [lines |-> <<"H">> \o c \o <<"T">>, fault |-> f] : f \in Faults(Len(c)) } :
                   c \in Contents(maxlines - 2) }

OtherFile == [lines |-> <<"H", "text", "T">>, fault |-> NoFault]

\* the input directories: some of the first MaxFiles names hold a text file,
\* and a file that is no .txt lies beside them
Directories(maxfiles, maxlines) ==
    UNION { { [n \in N \cup {OtherName} |-> IF n = OtherName THEN OtherFile ELSE d[n]] :
                d \in [N -> TextFiles(maxlines)] } :
              N \in SUBSET { TxtNames[i] : i \in 1..maxfiles } }

\* The store file: gen is the run of the build that created it (0: before any).
NoStore == [exists |-> FALSE, gen |-> 0, schema |-> "none", batches |-> <<>>]
OldRow == [file |-> <<"o","l","d">>, line |-> 2, isin |-> TRUE]
OldStore == [exists |-> TRUE, gen |-> 0, schema |-> "string",
             batches |-> << [schema |-> "string", rows |-> <<OldRow>>] >>]

\* the rows of a store file, in order
StoreRows(disk) == Flatten([i \in 1..Len(disk.batches) |-> disk.batches[i].rows])

\* line 79: sorted([f for f in os.listdir(texts_path) if f.lower().endswith('.txt')])
files_to_process_of(dir) ==
    SortedStrings({ n \in DOMAIN dir : EndsWith(Lower(n), s_txt) })

\* (a build that leaves the old file in place)
RemoveOldStoreKeeps(disk) == disk

\* lines 91-93: os.remove(FINAL_PARQUET_PATH)
RemoveOldStore(disk) == NoStore

\* line 101: lines[1:-1]
ContentLines(lines) == IF Len(lines) <= 2 THEN <<>> ELSE SubSeq(lines, 2, Len(lines) - 1)

\* lines 105-108: the rows pd.read_fwf makes of content_lines[i:i + BATCH_SIZE];
\* it drops the lines that hold only spaces
DecodeBatch(name, content, i) ==
    LET idxs == SelectSeq([j \in 1..(Min(i + BATCH_SIZE, Len(content)) - i) |-> i + j],
                          LAMBDA j : content[j] # "blank")
    IN [k \in 1..Len(idxs) |->
          [file |-> name, line |-> idxs[k] + 1, isin |-> content[idxs[k]] = "text"]]

\* line 121: the schema pa.Table.from_pandas infers
TableSchema(rows) ==
    IF \E k \in 1..Len(rows) : rows[k].isin THEN "string" ELSE "double"

\* line 127: table.cast(final_schema) raises: text that is no number cannot
\* become a double
CastRaises(schema, final_schema) == schema = "string" /\ final_schema = "double"

\* (a batch written with the schema inferred for it)
CastSchemaKeeps(schema, final_schema) == schema

\* line 127: the schema of table.cast(final_schema)
CastSchema(schema, final_schema) == final_schema

\* (a file loop without the except clause: the error leaves the build)
HandleFileErrorAborts(b, name) == [b EXCEPT !.failed = @ \cup {name}, !.phase = "aborted"]

\* lines 129-130: the except clause of the file loop
HandleFileError(b, name) ==
    [b EXCEPT !.failed = @ \cup {name}, !.idx = @ + 1, !.phase = "loop"]

\* line 104: the loop goes to the next batch, or leaves the file after the last
Advance(b, content) ==
    IF b.i + BATCH_SIZE >= Len(content)
    THEN [b EXCEPT !.idx = @ + 1, !.phase = "loop", !.i = 0]
    ELSE [b EXCEPT !.i = @ + BATCH_SIZE]

\* lines 105-128: one turn of the batch loop
process_batch(b) ==
    LET name == b.files_to_process[b.idx]
        file == b.dir[name]
        content == ContentLines(file.lines)
        k == (b.i \div BATCH_SIZE) + 1
        rows == DecodeBatch(name, content, b.i)
        schema == TableSchema(rows)
        \* lines 123-125
        opened == IF b.writer THEN b
                  ELSE [b EXCEPT !.final_schema = schema, !.writer = TRUE,
                                 !.disk = [exists |-> TRUE, gen |-> b.run,
                                           schema |-> schema, batches |-> <<>>]]
        handed == CastSchema(schema, opened.final_schema)
        given == [opened EXCEPT !.handed = @ \cup {handed}]
    IN IF file.fault = [kind |-> "decode", batch |-> k] THEN HandleFileError(b, name)
       ELSE IF rows = <<>> THEN Advance(b, content)
       ELSE IF CastRaises(schema, opened.final_schema) THEN HandleFileError(opened, name)
       ELSE IF file.fault = [kind |-> "write", batch |-> k] \/ handed # given.disk.schema
       THEN HandleFileError(given, name)
       ELSE Advance([given EXCEPT !.disk.batches =
                        Append(@, [schema |-> handed, rows |-> rows])], content)

InitBuild ==
    /\ df_dicionario = <<>>
    /\ pc = "idle"
    /\ call = NoCall
    /\ \E dir \in Directories(MaxFiles, MaxLines), disk \in {NoStore, OldStore} :
         build = [phase |-> "start", dir |-> dir, disk |-> disk, before |-> disk,
                  files_to_process |-> <<>>, idx |-> 0, i |-> 0,
                  writer |-> FALSE, final_schema |-> "none", handed |-> {},
                  failed |-> {}, visited |-> <<>>, run |-> 1, first |-> NoStore,
                  first_dir |-> dir]

\* lines 79-93
StartBuild ==
    /\ build.phase = "start"
    /\ LET files == files_to_process_of(build.dir)
       IN build' = IF files = <<>>
                   THEN [build EXCEPT !.phase = "returned"]
                   ELSE [build EXCEPT !.phase = "loop", !.files_to_process = files,
                                      !.idx = 1,
                                      !.disk = IF @.exists THEN RemoveOldStore(@) ELSE @]
    /\ UNCHANGED <<df_dicionario, pc, call>>

\* lines 95-102: the next file is opened and read
NextFile ==
    /\ build.phase = "loop"
    /\ build.idx <= Len(build.files_to_process)
    /\ LET name == build.files_to_process[build.idx]
           file == build.dir[name]
           seen == [build EXCEPT !.visited = Append(@, name)]
       IN build' = IF file.fault.kind = "read" THEN HandleFileError(seen, name)
                   ELSE IF ContentLines(file.lines) = <<>>
                   THEN [seen EXCEPT !.idx = @ + 1]
                   ELSE [seen EXCEPT !.phase = "batch", !.i = 0]
    /\ UNCHANGED <<df_dicionario, pc, call>>

ProcessBatch ==
    /\ build.phase = "batch"
    /\ build' = process_batch(build)
    /\ UNCHANGED <<df_dicionario, pc, call>>

\* lines 134-138
FinishBuild ==
    /\ build.phase = "loop"
    /\ build.idx > Len(build.files_to_process)
    /\ build' = [build EXCEPT !.phase = "returned", !.writer = FALSE]
    /\ UNCHANGED <<df_dicionario, pc, call>>

\* os.path.basename(member): what follows the last "/"
RECURSIVE basename(_)
basename(member) ==
    IF member = <<>> THEN <<>>
    ELSE IF member[Len(member)] = "/" THEN <<>>
    ELSE Append(basename(SubSeq(member, 1, Len(member) - 1)), member[Len(member)])

\* lines 53-56: the name of the text file a member is written to
output_filename(member) ==
    IF ~EndsWith(Lower(basename(member)), s_txt)
    THEN basename(member) \o <<".","T","X","T">>
    ELSE basename(member)

\* The raw directories: none or one archive.  An archive is the sequence of its
\* members, each a name and the text file it unpacks to, and says where its
\* extraction fails: nowhere, at the opening of the archive ("badzip"), at
\* the opening of its member number `member` ("open"), or in the copying of
\* that member ("copy") after the target file was created.  The copy goes
\* buffer by buffer, so a copy that fails leaves the target with the first
\* `kept` lines of the member and, when `cut`, the beginning of the next
\* line (the line "cut"); the error can also come after the last buffer.
NewText == [lines |-> <<"H", "text", "T">>, fault |-> NoFault]
NewMissing == [lines |-> <<"H", "missing", "T">>, fault |-> NoFault]
ZipMembers == << [name |-> <<"a",".","t","x","t">>, file |-> NewText],
                 [name |-> <<"d","/","c">>, file |-> NewMissing] >>
ZipFault(kind, member, kept, cut) ==
    [kind |-> kind, member |-> member, kept |-> kept, cut |-> cut]
ZipFaults ==
    { ZipFault("none", 0, 0, FALSE), ZipFault("badzip", 0, 0, FALSE),
      ZipFault("open", 2, 0, FALSE) }
    \cup { ZipFault("copy", 2, kept, cut) :
             kept \in {0, Len(ZipMembers[2].file.lines) - 1,
                       Len(ZipMembers[2].file.lines)},
             cut \in BOOLEAN }

\* what a copy that fails leaves of a file
PartialFile(file, kept, cut) ==
    [lines |-> SubSeq(file.lines, 1, Min(kept, Len(file.lines)))
                  \o (IF cut /\ kept < Len(file.lines) THEN <<"cut">> ELSE <<>>),
     fault |-> NoFault]
RawDirectories ==
    {<<>>} \cup { << [members |-> ZipMembers, fault |-> f] >> : f \in ZipFaults }

\* the directory with the file called name created or replaced
WriteFile(dir, name, file) ==
    [n \in DOMAIN dir \cup {name} |-> IF n = name THEN file ELSE dir[n]]

\* lines 51-62: the members of one archive are written to the texts
\* directory, from member number k on; a member that cannot be opened ends
\* the archive, and so does a copy that fails, which leaves the target file
\* with what was copied before
RECURSIVE ExtractMembers(_, _, _)
ExtractMembers(dir, zip, k) ==
    IF k > Len(zip.members) THEN dir
    ELSE IF zip.fault.kind = "open" /\ zip.fault.member = k THEN dir
    ELSE IF zip.fault.kind = "copy" /\ zip.fault.member = k
    THEN WriteFile(dir, output_filename(zip.members[k].name),
                   PartialFile(zip.members[k].file, zip.fault.kept, zip.fault.cut))
    ELSE ExtractMembers(WriteFile(dir, output_filename(zip.members[k].name),
                                  zip.members[k].file), zip, k + 1)

\* lines 31-69: extract_zip_files on a raw directory that holds the archives
\* of the sequence zips; an archive that is no valid ZIP is passed over
RECURSIVE extract_zip_files(_, _)
extract_zip_files(dir, zips) ==
    IF zips = <<>> THEN dir
    ELSE extract_zip_files(IF zips[1].fault.kind = "badzip" THEN dir
                           ELSE ExtractMembers(dir, zips[1], 1), Tail(zips))

\* run_full_pipeline run again: the archives of the raw directory are
\* extracted into the texts directory before the next build
ExtractZipFiles ==
    /\ build.phase = "returned"
    /\ build.run < MaxRuns
    /\ \E zips \in RawDirectories :
          build' = [build EXCEPT !.phase = "extracted", !.first_dir = build.dir,
                                 !.dir = extract_zip_files(build.dir, zips)]
    /\ UNCHANGED <<df_dicionario, pc, call>>

\* the build is run again, on the texts directory as it is now
Rebuild ==
    /\ build.phase \in {"returned", "extracted"}
    /\ build.run < MaxRuns
    /\ build' = [build EXCEPT !.phase = "start", !.run = @ + 1, !.first = build.disk,
                              !.first_dir = IF build.phase = "extracted" THEN @ ELSE build.dir,
                              !.before = build.disk,
                              !.files_to_process = <<>>, !.idx = 0, !.i = 0,
                              !.writer = FALSE, !.final_schema = "none",
                              !.handed = {}, !.failed = {}, !.visited = <<>>]
    /\ UNCHANGED <<df_dicionario, pc, call>>

NextBuild ==
    StartBuild \/ NextFile \/ ProcessBatch \/ FinishBuild \/ ExtractZipFiles \/ Rebuild

SpecBuild == InitBuild /\ [][NextBuild]_vars

(***************************************************************************)
(* dictionary_builder.create_security_master run on a store                *)
(*                                                                         *)
(* The stores are the sequences of at most MaxStoreRows Quote Records over *)
(* two identifiers, two tickers, one name and two trade dates, each of     *)
(* which can be missing: a record has the first ticker and the name, the   *)
(* second ticker and no name, or neither ticker nor name.                  *)
(***************************************************************************)
\* the largest number of rows of a store
MaxStoreRows == 3

\* the Quote Records of the stores
MasterRows ==
    { Row(date, 2, t[1], 10, t[2], t[3], 0, isi) :
        date \in {0, 20230102, 20230103},
        t \in { <<NA, NA, NA>>, <<s_VALE3, s_VALE, s_ON>>, <<s_PETR4, NA, s_PN>> },
        isi \in {NA, s_BRVALE, s_BRPETR} }

\* where the builder can fail: nowhere, in pd.read_parquet (line 67), in
\* to_parquet (line 106) or in to_excel (line 107)
MasterFaults == {"none", "read_parquet", "to_parquet", "to_excel"}

InitMaster ==
    /\ df_dicionario = <<>>
    /\ pc = "idle"
    /\ call = NoCall
    /\ \E k \in 0..MaxStoreRows, exists \in BOOLEAN : \E store \in [1..k -> MasterRows] :
         build = [phase |-> "processed", exists |-> exists, written |-> FALSE,
                  xlsx |-> FALSE, caught |-> "",
                  store |-> IF exists THEN store ELSE <<>>]

\* lines 55-114: without the store file the builder returns at once (60-62);
\* with it the Security Master is built and written to dicionario_ativos.parquet
\* (df_dicionario here) and then to dicionario_ativos.xlsx.  An exception is
\* caught and reported (113-114), and the builder returns with what was
\* written before it: nothing, or the Parquet file without the Excel file.
CreateSecurityMaster ==
    /\ build.phase = "processed"
    /\ IF build.exists
       THEN \E fault \in MasterFaults :
              IF fault \in {"read_parquet", "to_parquet"}
              THEN /\ df_dicionario' = df_dicionario
                   /\ build' = [build EXCEPT !.phase = "master", !.caught = fault]
              ELSE /\ df_dicionario' \in create_security_master(build.store)
                   /\ build' = [build EXCEPT !.phase = "master", !.written = TRUE,
                                             !.xlsx = (fault = "none"),
                                             !.caught = fault]
       ELSE /\ df_dicionario' = df_dicionario
            /\ build' = [build EXCEPT !.phase = "master"]
    /\ UNCHANGED <<pc, call>>

NextMaster == CreateSecurityMaster

SpecMaster == InitMaster /\ [][NextMaster]_vars

(***************************************************************************)
(* Properties of the query engine (specification Spec)                     *)
(***************************************************************************)
IsGetQuotes == call.op = "get_quotes"

\* a criterion of the call as the claims read it
AsList(v) == IF v.t = "list" THEN v.l ELSE <<v>>
AsStrings(v) == IF v.t = "list" THEN v.l ELSE <<v.s>>

Given(kw, k) == k \in DOMAIN kw /\ kw[k] # PyNone

\* C1: a call of get_quotes that supplies none of the starter criteria,
\* whatever else it supplies, ends in the invalid-query ValueError of the
\* starter validation and never scans the store.
C1_NoStarterIsInvalidQuery ==
    (IsGetQuotes /\ DOMAIN call.kwargs \cap valid_starters = {})
        => /\ call.outcome = "raised"
           /\ call.exc = "ValueError"
           /\ call.stage = "validate"
           /\ ~call.scanned

\* a call with two non-starter criteria and no starter was rejected
C1_Witness ==
    /\ IsGetQuotes
    /\ DOMAIN call.kwargs = {"start_date", "especificacao"}
    /\ call.outcome = "raised"

\* C2 (as claimed): a call that passes the starter validation never raises, and
\* returns no row when something of the data layer failed.
C2_DataFaultsNeverRaise ==
    (IsGetQuotes /\ call.stage \notin {"entity", "validate"})
        => /\ call.outcome = "returned"
           /\ (call.caught # "" \/ ~call.readable) => call.rows = <<>>

\* a criterion of the call is a date or a code, which the filter builder
\* converts
HasConversion(params) ==
    \E k \in date_args \cup {"codbdi", "tpmerc"} : Given(params, k)

\* a code criterion of the call is a list that holds None
HasNoneCode(params) ==
    \E k \in {"codbdi", "tpmerc"} :
        Given(params, k) /\ PyNone \in Range(AsList(params[k]))

\* C2 (amended): a call that passes the starter validation and reaches the
\* scan never raises, and returns no row when the scan or the post-filter
\* failed; such a call raises only from the filter builder, before any scan,
\* when it converts a date or a code: ValueError, or TypeError for a code
\* that is None.
C2_ScanFaultsNeverRaise ==
    (IsGetQuotes /\ call.stage \notin {"entity", "validate"})
        => /\ call.scanned =>
                /\ call.outcome = "returned"
                /\ (call.caught # "" \/ ~call.readable) => call.rows = <<>>
           /\ ~call.scanned =>
                /\ call.outcome = "raised"
                /\ call.stage = "filters"
                /\ call.exc \in {"ValueError", "TypeError"}
                /\ HasConversion(call.params)
                /\ call.exc = "TypeError" => HasNoneCode(call.params)

\* an unreadable store was scanned for a ticker and the call returned no row
C2_Witness ==
    /\ IsGetQuotes
    /\ Given(call.kwargs, "tickers")
    /\ ~call.readable
    /\ call.scanned
    /\ call.caught = "OSError"
    /\ call.outcome = "returned"

\* the criteria of a call as the claim reads them, for one returned row
BelongsToEntity(r, dic, entity) ==
    \E e \in Range(find_assets(dic, entity)) :
        \/ r.CODISI = e.CODISI
        \/ r.CODNEG \in Range(Split(e.TICKERS_HISTORICOS, <<" ", "|", " ">>))
        \/ (MatchRoot(e.ULTIMO_TICKER) /\ StartsWith(r.CODNEG, SubSeq(e.ULTIMO_TICKER, 1, 4)))

MeetsAssetClass(r, ac) ==
    /\ Lower(ac) = s_equity => r.CODBDI \in {2, 96} /\ r.TPMERC \in {10, 20}
    /\ Lower(ac) = s_fii => r.CODBDI = 12
    /\ Lower(ac) = s_options => r.TPMERC \in {70, 80, 12, 13}
    /\ Lower(ac) = s_bdr => ~IsNA(r.ESPECI) /\ Contains(Upper(r.ESPECI), <<"D","R">>)

MeetsDirectCriteria(r, kw) ==
    /\ Given(kw, "tickers") =>
          r.CODNEG \in { Upper(t) : t \in Range(AsStrings(kw["tickers"])) }
    /\ Given(kw, "asset_class") => MeetsAssetClass(r, kw["asset_class"].s)
    /\ Given(kw, "codisi") => r.CODISI \in Range(AsStrings(kw["codisi"]))
    /\ Given(kw, "codbdi") =>
          r.CODBDI \in { CodeOf(codbdi_map, x) : x \in Range(AsList(kw["codbdi"])) }
    /\ Given(kw, "tpmerc") =>
          r.TPMERC \in { CodeOf(tpmerc_map, x) : x \in Range(AsList(kw["tpmerc"])) }
    /\ Given(kw, "start_date") =>
          r.DATA_PREGAO # 0 /\ to_datetime(kw["start_date"].s, call.clock, call.guess) # NaT
             /\ TsLeq(to_datetime(kw["start_date"].s, call.clock, call.guess), Midnight(r.DATA_PREGAO))
    /\ Given(kw, "end_date") =>
          r.DATA_PREGAO # 0 /\ to_datetime(kw["end_date"].s, call.clock, call.guess) # NaT
             /\ TsLeq(Midnight(r.DATA_PREGAO), to_datetime(kw["end_date"].s, call.clock, call.guess))
    /\ Given(kw, "vencimento_min") =>
          r.DATVEN # 0 /\ to_datetime(kw["vencimento_min"].s, call.clock, call.guess) # NaT
             /\ TsLeq(to_datetime(kw["vencimento_min"].s, call.clock, call.guess), Midnight(r.DATVEN))
    /\ Given(kw, "vencimento_max") =>
          r.DATVEN # 0 /\ to_datetime(kw["vencimento_max"].s, call.clock, call.guess) # NaT
             /\ TsLeq(Midnight(r.DATVEN), to_datetime(kw["vencimento_max"].s, call.clock, call.guess))
    /\ Given(kw, "ticker_root") => StartsWith(r.CODNEG, Upper(kw["ticker_root"].s))
    /\ Given(kw, "especificacao") =>
          /\ ~IsNA(r.ESPECI)
          /\ Search(Join(AsStrings(kw["especificacao"]), <<"|">>), r.ESPECI, TRUE)

\* every returned row meets every criterion but the entity
DirectCriteriaMet ==
    IsGetQuotes => \A i \in 1..Len(call.rows) : MeetsDirectCriteria(call.rows[i], call.kwargs)

\* C3 (as claimed): every returned row meets every criterion of the call,
\* the entity among them.
C3_RowsMeetEveryCriterion ==
    IsGetQuotes =>
        \A i \in 1..Len(call.rows) :
            /\ MeetsDirectCriteria(call.rows[i], call.kwargs)
            /\ Given(call.kwargs, "entity") =>
                  BelongsToEntity(call.rows[i], df_dicionario, call.kwargs["entity"].s)

EntityUnmatched ==
    /\ IsGetQuotes
    /\ Given(call.kwargs, "entity")
    /\ Truthy(call.kwargs["entity"])
    /\ find_assets_exc(call.kwargs["entity"].s) = ""
    /\ find_assets(df_dicionario, call.kwargs["entity"].s) = <<>>

\* C4 (as claimed): an entity that find_assets does not match makes the call
\* return no row without a scan, whatever comes with it.
C4_UnmatchedEntityNeverScans ==
    EntityUnmatched => call.outcome = "returned" /\ call.rows = <<>> /\ ~call.scanned

OptionsOfMatchedEntity ==
    /\ IsGetQuotes
    /\ Given(call.kwargs, "entity")
    /\ Given(call.kwargs, "asset_class")
    /\ call.kwargs["asset_class"] = PyStr(s_options)
    /\ find_assets_exc(call.kwargs["entity"].s) = ""
    /\ find_assets(df_dicionario, call.kwargs["entity"].s) # <<>>

\* C5 (as claimed): options of an entity that find_assets matches: the call
\* does not raise, takes the first four letters of the first match's latest
\* ticker as root, and returns only options rows of that root.
C5_OptionsOfEntityByRoot ==
    OptionsOfMatchedEntity =>
        LET main_ticker ==
                find_assets(df_dicionario, call.kwargs["entity"].s)[1].ULTIMO_TICKER
        IN /\ call.outcome = "returned"
           /\ call.root = PyStr(SubSeq(main_ticker, 1, 4))
           /\ \A i \in 1..Len(call.rows) :
                 /\ StartsWith(call.rows[i].CODNEG, SubSeq(main_ticker, 1, 4))
                 /\ call.rows[i].TPMERC \in {70, 80, 12, 13}

\* C6 (as claimed): a scan always projects the key columns, and projects
\* ESPECI whenever a post-filter is going to read it.
C6_ProjectionCoversPostFilters ==
    (IsGetQuotes /\ call.scanned)
        => /\ key_columns \subseteq call.columns
           /\ call.reads_especi => "ESPECI" \in call.columns

\* the rows the claim expects of find_assets for a query
ExpectedMatch(e, query) ==
    \/ e.CODISI = Upper(query)
    \/ Upper(query) \in Range(Split(e.TICKERS_HISTORICOS, <<" ", "|", " ">>))
    \/ Contains(e.NOMES_HISTORICOS, Upper(query))

\* C7 (as claimed): find_assets never raises and returns exactly the rows
\* matched by identifier, by whole historical ticker or by a part of a name.
C7_FindAssetsExactUnion ==
    call.op = "find_assets"
        => /\ call.outcome = "returned"
           /\ call.rows = SelectSeq(df_dicionario, LAMBDA e : ExpectedMatch(e, call.query))

\* C16 (as claimed): every scan of the store that a call of get_quotes makes
\* is given a filter list that is not empty.
C16_EveryScanHasPushdown ==
    (IsGetQuotes /\ call.scanned) => call.filters # <<>>

(***************************************************************************)
(* Properties of the build (specification SpecBuild)                       *)
(***************************************************************************)
Returned == build.phase = "returned"

\* the rows a file holds between its header and its trailer
ContentRows(name, file) ==
    { [file |-> name, line |-> j, isin |-> file.lines[j] = "text"] :
        j \in { x \in 2..(Len(file.lines) - 1) : file.lines[x] # "blank" } }

\* C8: no failure of a file aborts the build: when the build returns every
\* file of the list has been opened, in order, and every row of every file
\* that did not fail is in the store.
C8_FailingFileNeverAbortsBuild ==
    /\ build.phase # "aborted"
    /\ (Returned /\ build.files_to_process # <<>>) =>
          /\ build.visited = build.files_to_process
          /\ \A n \in Range(build.files_to_process) \ build.failed :
                ContentRows(n, build.dir[n]) \subseteq Range(StoreRows(build.disk))

\* the first file failed and the rows of the second are in the store
C8_Witness ==
    /\ Returned
    /\ Len(build.files_to_process) = 2
    /\ build.failed = {build.files_to_process[1]}
    /\ ContentRows(build.files_to_process[2], build.dir[build.files_to_process[2]]) # {}
    /\ ContentRows(build.files_to_process[2], build.dir[build.files_to_process[2]])
          \subseteq Range(StoreRows(build.disk))

\* the store after a run is the one of the run before when the texts
\* directory is the one of the run before
SameAsFirstRun ==
    (build.run > 1 /\ build.dir = build.first_dir) =>
        /\ build.disk.exists = build.first.exists
        /\ build.disk.schema = build.first.schema
        /\ StoreRows(build.disk) = StoreRows(build.first)

\* C9 (as claimed): after any build the store file that existed before is
\* gone, the files were taken in sorted order, and a second run leaves what
\* the first left.
C9_StoreDependsOnlyOnInputs ==
    Returned =>
        /\ build.disk.exists => build.disk.gen = build.run
        /\ build.visited = files_to_process_of(build.dir)
        /\ SameAsFirstRun

\* C9 (amended): the same when the directory holds at least one .txt file;
\* when it holds none the build returns at once and the store stays as it was.
C9_StoreDependsOnlyOnInputsOfNonEmptyBuild ==
    Returned =>
        /\ files_to_process_of(build.dir) # <<>> =>
              /\ build.disk.exists => build.disk.gen = build.run
              /\ build.visited = files_to_process_of(build.dir)
        /\ files_to_process_of(build.dir) = <<>> =>
              build.disk = build.before /\ build.visited = <<>>
        /\ SameAsFirstRun

\* a second run over the two files of the first run, on top of the store of
\* the first, has returned, and the store holds rows
C9_Witness ==
    /\ Returned
    /\ build.run = 2
    /\ build.dir = build.first_dir
    /\ build.before.exists
    /\ Len(build.files_to_process) = 2
    /\ build.disk.exists /\ StoreRows(build.disk) # <<>>

\* C10: every batch of the store has the schema of the file, which is the
\* schema captured for the build, and every table handed to the writer had it.
C10_OneSchemaPerBuild ==
    /\ \A i \in 1..Len(build.disk.batches) :
          build.disk.batches[i].schema = build.disk.schema
    /\ build.writer =>
          /\ build.disk.schema = build.final_schema
          /\ build.handed \subseteq {build.final_schema}

\* a batch whose own schema was "double" has been appended, as "string", after
\* a batch of another file
C10_Witness ==
    /\ build.writer
    /\ build.final_schema = "string"
    /\ \E i, j \in 1..Len(build.disk.batches) :
          /\ i < j
          /\ build.disk.batches[i].rows[1].file # build.disk.batches[j].rows[1].file
          /\ TableSchema(build.disk.batches[j].rows) = "double"

\* the rows of the store that come from the file called name
RowsOfFile(name) == { r \in Range(StoreRows(build.disk)) : r.file = name }

\* one row for every line between the first and the last line of a file; a
\* line of spaces is a record with every field missing
LinesBetween(name, file) ==
    { [file |-> name, line |-> j, isin |-> file.lines[j] = "text"] :
        j \in 2..(Len(file.lines) - 1) }

\* C11 (as claimed): when the build has ended, no row of the store comes from
\* the first or the last line of a file, every line between them of a file
\* that did not fail is a row of the store, and a file of two lines or fewer
\* that could be read is no failure and has no row.
C11_HeaderTrailerStrippedContentDecoded ==
    (Returned /\ build.files_to_process # <<>>) =>
        \A n \in Range(build.files_to_process) :
            /\ \A r \in RowsOfFile(n) : r.line \in 2..(Len(build.dir[n].lines) - 1)
            /\ n \notin build.failed =>
                  LinesBetween(n, build.dir[n]) \subseteq RowsOfFile(n)
            /\ (Len(build.dir[n].lines) <= 2 /\ build.dir[n].fault.kind # "read") =>
                  n \notin build.failed /\ RowsOfFile(n) = {}

\* C15 (as claimed): when the build has ended, the store holds no row of a
\* file that was reported as failed, whichever of its batches failed.
C15_FailedFileLeavesNoRows ==
    Returned => \A n \in build.failed : RowsOfFile(n) = {}

(***************************************************************************)
(* Properties of the Security Master builder (specification SpecMaster)    *)
(***************************************************************************)
MasterWritten == build.phase = "master" /\ build.written

\* the rows of the store that carry the identifier isin
StoreRowsOf(isin) == { r \in Range(build.store) : r.CODISI = isin }

\* the identifiers of the store
StoreIdentifiers == { r.CODISI : r \in Range(build.store) } \ {NA}

Delimiter == <<" ", "|", " ">>

\* the tokens of a trail that are no empty string
Tokens(trail) == Range(Split(trail, Delimiter)) \ {<<>>}

\* C12: the Security Master written for a store has one entry for each
\* identifier of the store that is not missing and no other entry, no two
\* entries have the same identifier, and the latest fields and the trails of
\* an entry come from rows that carry its identifier, so from no row without
\* identifier.
C12_OneEntryPerIdentifier ==
    MasterWritten =>
        /\ { e.CODISI : e \in Range(df_dicionario) } = StoreIdentifiers
        /\ Len(df_dicionario) = Cardinality(StoreIdentifiers)
        /\ \A e \in Range(df_dicionario) :
              /\ \E r \in StoreRowsOf(e.CODISI) :
                    /\ e.ULTIMO_TICKER = r.CODNEG
                    /\ e.ULTIMO_NOME = r.NOMRES
                    /\ e.ULTIMA_ESPECIFICACAO = r.ESPECI
              /\ Tokens(e.TICKERS_HISTORICOS) \subseteq { r.CODNEG : r \in StoreRowsOf(e.CODISI) }
              /\ Tokens(e.NOMES_HISTORICOS) \subseteq { r.NOMRES : r \in StoreRowsOf(e.CODISI) }

\* a store of two rows of one identifier and a row without identifier, which
\* has a ticker of its own, gave one entry
C12_Witness ==
    /\ MasterWritten
    /\ Len(build.store) = 3
    /\ Len(df_dicionario) = 1
    /\ \E i \in 1..3 :
          /\ IsNA(build.store[i].CODISI)
          /\ ~IsNA(build.store[i].CODNEG)
          /\ \A j \in (1..3) \ {i} :
                /\ build.store[j].CODISI = df_dicionario[1].CODISI
                /\ build.store[j].CODNEG # build.store[i].CODNEG

\* C13: the latest ticker, name and specification of an entry are those of
\* one row of its identifier, and that row has the greatest trade date of the
\* identifier's rows: whenever a row of the identifier has a date, the row
\* taken has a date and none of the identifier's rows has a later one.
C13_LatestFieldsOfMaxDateRow ==
    MasterWritten =>
        \A e \in Range(df_dicionario) :
            \E r \in StoreRowsOf(e.CODISI) :
                /\ e.ULTIMO_TICKER = r.CODNEG
                /\ e.ULTIMO_NOME = r.NOMRES
                /\ e.ULTIMA_ESPECIFICACAO = r.ESPECI
                /\ \A q \in StoreRowsOf(e.CODISI) :
                      q.DATA_PREGAO # 0 =>
                          r.DATA_PREGAO # 0 /\ q.DATA_PREGAO <= r.DATA_PREGAO

\* three rows of one identifier, the first without date, the second of the
\* later date and the third of the earlier, the second with a ticker of its
\* own: the entry has the ticker of the second
C13_Witness ==
    /\ MasterWritten
    /\ Len(build.store) = 3
    /\ Len(df_dicionario) = 1
    /\ \A i \in 1..3 : build.store[i].CODISI = df_dicionario[1].CODISI
    /\ build.store[1].DATA_PREGAO = 0
    /\ build.store[2].DATA_PREGAO > build.store[3].DATA_PREGAO
    /\ build.store[3].DATA_PREGAO # 0
    /\ build.store[2].CODNEG \notin {build.store[1].CODNEG, build.store[3].CODNEG}
    /\ df_dicionario[1].ULTIMO_TICKER = build.store[2].CODNEG

\* a trail is the join of the values in ascending order, and splitting it gives
\* them back with no empty and no missing token among them
TrailOf(trail, values) ==
    LET observed == { v \in values : ~IsNA(v) }
        tokens == Split(trail, Delimiter)
    IN /\ trail = Join(SortedStrings(observed), Delimiter)
       /\ tokens = SortedStrings(observed)
       /\ \A k \in 1..Len(tokens) : tokens[k] # <<>> /\ ~IsNA(tokens[k])

\* C14 (as claimed): the ticker trail and the name trail of every entry are
\* the distinct tickers and names of the identifier's rows that are not
\* missing, ascending, joined by ' | ', and splitting a trail gives no empty
\* and no missing token.
C14_TrailsSortedDistinctNoEmptyToken ==
    MasterWritten =>
        \A e \in Range(df_dicionario) :
            /\ TrailOf(e.TICKERS_HISTORICOS, { r.CODNEG : r \in StoreRowsOf(e.CODISI) })
            /\ TrailOf(e.NOMES_HISTORICOS, { r.NOMRES : r \in StoreRowsOf(e.CODISI) })

\* the same for the trails of the identifiers that have a ticker (a name) at
\* all
TrailsOfObservedValues ==
    MasterWritten =>
        \A e \in Range(df_dicionario) :
            /\ (\E r \in StoreRowsOf(e.CODISI) : ~IsNA(r.CODNEG)) =>
                  TrailOf(e.TICKERS_HISTORICOS, { r.CODNEG : r \in StoreRowsOf(e.CODISI) })
            /\ (\E r \in StoreRowsOf(e.CODISI) : ~IsNA(r.NOMRES)) =>
                  TrailOf(e.NOMES_HISTORICOS, { r.NOMRES : r \in StoreRowsOf(e.CODISI) })

====
